---- MODULE Spec2Model ----
(***************************************************************************)
(* The position-lifecycle code of the ALM strategies (src/strategies/alm): *)
(* the hysteresis engines, the turnover filters of the optimized strategy  *)
(* and the advanced path (hysteresis, regime gate, Chandelier exit).       *)
(*                                                                         *)
(* Every engine is a loop over the rows of one instrument.  The loop body  *)
(* is an operator from the loop's local variables and the row to the new   *)
(* local variables and the label written for that row, translated branch   *)
(* by branch from the Python source.  A behaviour is one call: the rows    *)
(* of the instrument arrive one per step, in frame order, and the step     *)
(* runs the loop body on the new row.                                      *)
(*                                                                         *)
(* Numbers: scores and thresholds are percentages (0.75 is 75), prices     *)
(* and ATR are small integers, timestamps are whole hours.                 *)
(***************************************************************************)
EXTENDS Integers, Sequences, FiniteSets, TLC

\* Longest instrument history of a loop engine.
MaxBars == 4
\* Largest min_holding / cooldown / persistence parameter tried.
MaxPeriods == 2

\* Python's None for an index or a timestamp (both are >= 0 when set).
None == -1

VARIABLES
    fn,     \* the function being executed
    args,   \* its keyword arguments
    rows,   \* the rows of the instrument consumed so far, in frame order
    st,     \* the loop's local variables after the last consumed row
    out     \* the output column ('factor') written so far

vars == <<fn, args, rows, st, out>>

\* np.sign
sign(x) == IF x > 0 THEN 1 ELSE IF x < 0 THEN -1 ELSE 0

\* Python's 0-based arr[i]
At(arr, i) == arr[i + 1]

Last(arr) == arr[Len(arr)]

\* A float NaN: a value of its own.  Every ordered comparison with it is
\* False, != is True, and arithmetic with it gives NaN.
NaN == -1000

IsNaN(x) == x = NaN

Gt(x, y) == ~IsNaN(x) /\ ~IsNaN(y) /\ x > y

Lt(x, y) == ~IsNaN(x) /\ ~IsNaN(y) /\ x < y

Plus(x, y) == IF IsNaN(x) \/ IsNaN(y) THEN NaN ELSE x + y

Minus(x, y) == IF IsNaN(x) \/ IsNaN(y) THEN NaN ELSE x - y

(***************************************************************************)
(* apply_ultra_wide_hysteresis (strategy_ultra_conservative.py)            *)
(***************************************************************************)

\* Default thresholds of apply_ultra_wide_hysteresis, in percent.
EntryThresholdDefault == 75
ExitThresholdDefault == 25

\* Scores tried: beyond the entry threshold, inside the band, below the exit
\* threshold (10 and 0), on both sides.
UltraScores == {-80, -50, 0, 10, 50, 80}

\* Hours between two consecutive rows of the sorted frame.
UltraGaps == {1, 2}

UltraArgs ==
    [entry_threshold : {EntryThresholdDefault},
     exit_threshold : {ExitThresholdDefault},
     min_holding_periods : 0 .. MaxPeriods]
    \cup
    [entry_threshold : {ExitThresholdDefault},
     exit_threshold : {EntryThresholdDefault},
     min_holding_periods : {0}]

\* Mutant: the forced hold ends one hour early.
UltraForcedHold_Short(loc, row, a) ==
    /\ loc.entry_timestamp # None
    /\ (row.timestamp - loc.entry_timestamp) < a.min_holding_periods - 1

\* hours_held < min_holding_periods (lines 87-89)
UltraForcedHold(loc, row, a) ==
    /\ loc.entry_timestamp # None
    /\ (row.timestamp - loc.entry_timestamp) < a.min_holding_periods

\* Mutant: a position flips to the other side when the score crosses the
\* opposite entry threshold.
UltraHysteresis_Flip(loc, row, a) ==
    IF loc.current_signal = 0
    THEN IF row.factor > a.entry_threshold
         THEN [current_signal |-> 1, entry_timestamp |-> row.timestamp]
         ELSE IF row.factor < -a.entry_threshold
              THEN [current_signal |-> -1, entry_timestamp |-> row.timestamp]
              ELSE loc
    ELSE IF loc.current_signal = 1
         THEN IF row.factor < -a.entry_threshold
              THEN [current_signal |-> -1, entry_timestamp |-> row.timestamp]
              ELSE IF row.factor < a.exit_threshold
                   THEN [current_signal |-> 0, entry_timestamp |-> None]
                   ELSE loc
         ELSE IF row.factor > a.entry_threshold
              THEN [current_signal |-> 1, entry_timestamp |-> row.timestamp]
              ELSE IF row.factor > -a.exit_threshold
                   THEN [current_signal |-> 0, entry_timestamp |-> None]
                   ELSE loc

\* Mutant: a long position is closed only by a score below minus the exit
\* threshold.
UltraHysteresis_LateExit(loc, row, a) ==
    IF loc.current_signal = 0
    THEN IF row.factor > a.entry_threshold
         THEN [current_signal |-> 1, entry_timestamp |-> row.timestamp]
         ELSE IF row.factor < -a.entry_threshold
              THEN [current_signal |-> -1, entry_timestamp |-> row.timestamp]
              ELSE loc
    ELSE IF loc.current_signal = 1
         THEN IF row.factor < -a.exit_threshold
              THEN [current_signal |-> 0, entry_timestamp |-> None]
              ELSE loc
         ELSE IF row.factor > -a.exit_threshold
              THEN [current_signal |-> 0, entry_timestamp |-> None]
              ELSE loc

\* Mutant: the long entry compares the score with minus the entry threshold.
UltraHysteresis_SignSlip(loc, row, a) ==
    IF loc.current_signal = 0
    THEN IF row.factor > -a.entry_threshold
         THEN [current_signal |-> 1, entry_timestamp |-> row.timestamp]
         ELSE IF row.factor < -a.entry_threshold
              THEN [current_signal |-> -1, entry_timestamp |-> row.timestamp]
              ELSE loc
    ELSE IF loc.current_signal = 1
         THEN IF row.factor < a.exit_threshold
              THEN [current_signal |-> 0, entry_timestamp |-> None]
              ELSE loc
         ELSE IF row.factor > -a.exit_threshold
              THEN [current_signal |-> 0, entry_timestamp |-> None]
              ELSE loc

\* Mutant: the entry comparisons include the threshold.
UltraHysteresis_Inclusive(loc, row, a) ==
    IF loc.current_signal = 0
    THEN IF row.factor >= a.entry_threshold
         THEN [current_signal |-> 1, entry_timestamp |-> row.timestamp]
         ELSE IF row.factor <= -a.entry_threshold
              THEN [current_signal |-> -1, entry_timestamp |-> row.timestamp]
              ELSE loc
    ELSE IF loc.current_signal = 1
         THEN IF row.factor < a.exit_threshold
              THEN [current_signal |-> 0, entry_timestamp |-> None]
              ELSE loc
         ELSE IF row.factor > -a.exit_threshold
              THEN [current_signal |-> 0, entry_timestamp |-> None]
              ELSE loc

\* Mutant: the exit comparisons include the threshold.
UltraHysteresis_ExitAtThreshold(loc, row, a) ==
    IF loc.current_signal = 0
    THEN IF row.factor > a.entry_threshold
         THEN [current_signal |-> 1, entry_timestamp |-> row.timestamp]
         ELSE IF row.factor < -a.entry_threshold
              THEN [current_signal |-> -1, entry_timestamp |-> row.timestamp]
              ELSE loc
    ELSE IF loc.current_signal = 1
         THEN IF row.factor <= a.exit_threshold
              THEN [current_signal |-> 0, entry_timestamp |-> None]
              ELSE loc
         ELSE IF row.factor >= -a.exit_threshold
              THEN [current_signal |-> 0, entry_timestamp |-> None]
              ELSE loc

\* The hysteresis branches (lines 97-111).
UltraHysteresis(loc, row, a) ==
    IF loc.current_signal = 0
    THEN IF Gt(row.factor, a.entry_threshold)
         THEN [current_signal |-> 1, entry_timestamp |-> row.timestamp]
         ELSE IF Lt(row.factor, -a.entry_threshold)
              THEN [current_signal |-> -1, entry_timestamp |-> row.timestamp]
              ELSE loc
    ELSE IF loc.current_signal = 1
         THEN IF Lt(row.factor, a.exit_threshold)
              THEN [current_signal |-> 0, entry_timestamp |-> None]
              ELSE loc
         ELSE IF Gt(row.factor, -a.exit_threshold)
              THEN [current_signal |-> 0, entry_timestamp |-> None]
              ELSE loc

\* One iteration of the row loop (lines 80-117): the forced hold skips the
\* hysteresis logic; either way final_signal of the row is current_signal.
UltraBody(loc, row, a) ==
    IF UltraForcedHold(loc, row, a) THEN loc ELSE UltraHysteresis(loc, row, a)

\* State at the top of the symbol loop (lines 77-78), final_signal empty.
UltraInit ==
    /\ fn = "apply_ultra_wide_hysteresis"
    /\ args \in UltraArgs
    /\ rows = <<>>
    /\ st = [current_signal |-> 0, entry_timestamp |-> None]
    /\ out = <<>>

\* The next row of the frame sorted by timestamp (line 65).
UltraNextRows ==
    IF rows = <<>>
    THEN [timestamp : {0}, factor : UltraScores]
    ELSE [timestamp : {Last(rows).timestamp + g : g \in UltraGaps},
          factor : UltraScores]

UltraStep ==
    /\ fn = "apply_ultra_wide_hysteresis"
    /\ Len(rows) < MaxBars
    /\ \E row \in UltraNextRows :
          LET loc == UltraBody(st, row, args) IN
          /\ rows' = Append(rows, row)
          /\ st' = loc
          /\ out' = Append(out, loc.current_signal)
    /\ UNCHANGED <<fn, args>>

(***************************************************************************)
(* apply_hysteresis_numba (numba_logic.py)                                 *)
(***************************************************************************)

NumbaPrices == 0 .. 4

\* Channel bounds of a row: an ordered channel and an inverted one.
NumbaBands ==
    {[upper |-> 3, lower |-> 1, middle |-> 2],
     [upper |-> 1, lower |-> 3, middle |-> 2]}

NumbaRows ==
    {[price |-> p, upper |-> b.upper, lower |-> b.lower, middle |-> b.middle] :
        p \in NumbaPrices, b \in NumbaBands}

\* The first index the loop visits: for i in range(1, n) (line 44).
NumbaFirstIndex == 1

\* Mutant: a position is closed only beyond the opposite band.
NumbaTransition_BandExit(state, row) ==
    IF state = 0
    THEN IF row.price > row.upper
         THEN 1
         ELSE IF row.price < row.lower THEN -1 ELSE 0
    ELSE IF state = 1
         THEN IF row.price < row.lower THEN 0 ELSE 1
         ELSE IF row.price > row.upper THEN 0 ELSE -1

\* The state transition of one visited row (lines 45-58).
NumbaTransition(state, row) ==
    IF state = 0
    THEN IF row.price > row.upper
         THEN 1
         ELSE IF row.price < row.lower THEN -1 ELSE 0
    ELSE IF state = 1
         THEN IF row.price < row.middle \/ row.price < row.lower
              THEN 0
              ELSE 1
         ELSE IF row.price > row.middle \/ row.price > row.upper
              THEN 0
              ELSE -1

\* Row i of the loop (lines 44-60): rows before the first visited index keep
\* the state and the 0 of np.zeros; a visited row is labelled with the state.
NumbaBody(state, row, i) ==
    IF i < NumbaFirstIndex THEN state ELSE NumbaTransition(state, row)

\* apply_hysteresis_numba on rows 0 .. n-1 of an array: the state after
\* them and the labels written.
RECURSIVE NumbaRun(_, _)
NumbaRun(rs, n) ==
    IF n = 0 THEN [state |-> 0, signal |-> <<>>]
    ELSE LET before == NumbaRun(rs, n - 1)
             state == NumbaBody(before.state, rs[n], n - 1)
         IN  [state |-> state,
              signal |-> Append(before.signal,
                                IF n - 1 < NumbaFirstIndex THEN 0 ELSE state)]

\* Mutant: the signal array holds the visited rows only.
apply_hysteresis_numba_Visited(rs) ==
    SubSeq(NumbaRun(rs, Len(rs)).signal, NumbaFirstIndex + 1, Len(rs))

apply_hysteresis_numba(rs) == NumbaRun(rs, Len(rs)).signal

NumbaInit ==
    /\ fn = "apply_hysteresis_numba"
    /\ args = <<>>
    /\ rows = <<>>
    /\ st = [state |-> 0]
    /\ out = <<>>

NumbaStep ==
    /\ fn = "apply_hysteresis_numba"
    /\ Len(rows) < MaxBars
    /\ \E row \in NumbaRows :
          LET state == NumbaBody(st.state, row, Len(rows)) IN
          /\ rows' = Append(rows, row)
          /\ st' = [state |-> state]
          /\ out' = Append(out, IF Len(rows) < NumbaFirstIndex THEN 0 ELSE state)
    /\ UNCHANGED <<fn, args>>

(***************************************************************************)
(* The signal filters: their rows are the values of the 'factor' column.   *)
(***************************************************************************)

SignalValues == {-2, -1, 0, 1, 2}

\* filtered[i-1] if i > 0 else 0
PrevOr0(filtered, i) == IF i > 0 THEN At(filtered, i - 1) ELSE 0

(***************************************************************************)
(* apply_exit_logic.apply_exit_group (strategy_improved.py)                *)
(***************************************************************************)

ExitArgs == [min_holding_periods : 0 .. MaxPeriods]

\* One iteration of the loop of apply_exit_group (lines 281-318); label is
\* filtered[i].
ExitBody(loc, v, i, filtered, a) ==
    LET current_signal == sign(v) IN
    IF loc.position # 0 /\ loc.position_start # None
    THEN IF i - loc.position_start >= a.min_holding_periods
         THEN IF current_signal = 0 \/ sign(current_signal) # loc.position
              THEN [position |-> 0, position_start |-> None, label |-> 0]
              ELSE [loc EXCEPT !.label = v]
         ELSE [loc EXCEPT !.label = PrevOr0(filtered, i)]
    ELSE IF current_signal # 0
         THEN IF loc.position = 0
              THEN [position |-> sign(current_signal), position_start |-> i,
                    label |-> v]
              ELSE IF sign(current_signal) = loc.position
                   THEN [loc EXCEPT !.label = v]
                   ELSE [position |-> 0, position_start |-> None, label |-> 0]
         ELSE [loc EXCEPT !.label = 0]

ExitInit ==
    /\ fn = "apply_exit_logic"
    /\ args \in ExitArgs
    /\ rows = <<>>
    /\ st = [position |-> 0, position_start |-> None, label |-> 0]
    /\ out = <<>>

ExitStep ==
    /\ fn = "apply_exit_logic"
    /\ Len(rows) < MaxBars
    /\ \E v \in SignalValues :
          LET loc == ExitBody(st, v, Len(rows), out, args) IN
          /\ rows' = Append(rows, v)
          /\ st' = loc
          /\ out' = Append(out, loc.label)
    /\ UNCHANGED <<fn, args>>

(***************************************************************************)
(* apply_min_holding_period_filter.filter_group (strategy_optimized.py)    *)
(***************************************************************************)

MinHoldArgs == [min_holding_hours : 0 .. MaxPeriods]

\* Mutant: the holding period is taken as elapsed one bar early.
MinHoldElapsed_Early(loc, i, a) ==
    loc.position_start # None
        /\ (i - loc.position_start) >= a.min_holding_hours - 1

\* position_start is not None and (i - position_start) >= min_holding_hours
MinHoldElapsed(loc, i, a) ==
    loc.position_start # None /\ (i - loc.position_start) >= a.min_holding_hours

\* One iteration of the loop of filter_group (lines 172-206); label is
\* filtered[i].
MinHoldBody(loc, v, i, filtered, a) ==
    LET current_signal == sign(v) IN
    IF current_signal = 0
    THEN IF loc.last_position # 0
         THEN IF MinHoldElapsed(loc, i, a)
              THEN [last_position |-> 0, position_start |-> None, label |-> 0]
              ELSE [loc EXCEPT !.label = PrevOr0(filtered, i)]
         ELSE [loc EXCEPT !.label = 0]
    ELSE IF current_signal # loc.last_position
         THEN IF loc.last_position = 0
              THEN [last_position |-> current_signal, position_start |-> i,
                    label |-> v]
              ELSE IF MinHoldElapsed(loc, i, a)
                   THEN [last_position |-> current_signal,
                         position_start |-> i, label |-> v]
                   ELSE [loc EXCEPT !.label = PrevOr0(filtered, i)]
         ELSE [loc EXCEPT !.label = v,
                          !.position_start =
                              IF loc.position_start = None THEN i
                              ELSE loc.position_start]

MinHoldInit ==
    /\ fn = "apply_min_holding_period_filter"
    /\ args \in MinHoldArgs
    /\ rows = <<>>
    /\ st = [last_position |-> 0, position_start |-> None, label |-> 0]
    /\ out = <<>>

MinHoldStep ==
    /\ fn = "apply_min_holding_period_filter"
    /\ Len(rows) < MaxBars
    /\ \E v \in SignalValues :
          LET loc == MinHoldBody(st, v, Len(rows), out, args) IN
          /\ rows' = Append(rows, v)
          /\ st' = loc
          /\ out' = Append(out, loc.label)
    /\ UNCHANGED <<fn, args>>

(***************************************************************************)
(* apply_cooldown_filter.filter_group (strategy_optimized.py)              *)
(***************************************************************************)

CooldownArgs == [cooldown_hours : 0 .. MaxPeriods]

\* Mutant: the window is one bar shorter.
InCooldown_Short(last_close_time, i, a) ==
    last_close_time # None /\ i - last_close_time < a.cooldown_hours - 1

\* last_close_time is not None and (i - last_close_time) < cooldown_hours
InCooldown(last_close_time, i, a) ==
    last_close_time # None /\ (i - last_close_time) < a.cooldown_hours

\* One iteration of the loop of filter_group (lines 250-268); values holds
\* the rows before row i, label is filtered[i].
CooldownBody(loc, v, i, values, a) ==
    LET current_signal == sign(v)
        prev_signal == IF i > 0 THEN sign(At(values, i - 1)) ELSE 0
        last_close_time ==
            IF loc.last_position # 0 /\ current_signal = 0 /\ prev_signal # 0
            THEN i
            ELSE loc.last_close_time
    IN  [last_position |->
             IF current_signal # 0 THEN current_signal ELSE loc.last_position,
         last_close_time |-> last_close_time,
         label |-> IF InCooldown(last_close_time, i, a) THEN 0 ELSE v]

CooldownInit ==
    /\ fn = "apply_cooldown_filter"
    /\ args \in CooldownArgs
    /\ rows = <<>>
    /\ st = [last_position |-> 0, last_close_time |-> None, label |-> 0]
    /\ out = <<>>

CooldownStep ==
    /\ fn = "apply_cooldown_filter"
    /\ Len(rows) < MaxBars
    /\ \E v \in SignalValues :
          LET loc == CooldownBody(st, v, Len(rows), rows, args) IN
          /\ rows' = Append(rows, v)
          /\ st' = loc
          /\ out' = Append(out, loc.label)
    /\ UNCHANGED <<fn, args>>

(***************************************************************************)
(* apply_signal_persistence_filter.filter_group, method 'forward_fill'     *)
(* (strategy_optimized.py)                                                 *)
(***************************************************************************)

PersistArgs == [min_periods : 0 .. MaxPeriods + 1]

\* filtered[lo:hi+1] = v on an array of which rows 0 .. hi are in view
FillSlice(filtered, lo, hi, v) ==
    [n \in 1 .. hi + 1 |->
        IF n - 1 >= lo THEN v
        ELSE IF n <= Len(filtered) THEN filtered[n] ELSE 0]

\* Mutant: one more bar is required.
PersistEnough_Late(signal_start, i, a) == i - signal_start >= a.min_periods

\* i - signal_start >= min_periods - 1 (line 66)
PersistEnough(signal_start, i, a) == i - signal_start >= a.min_periods - 1

\* One iteration of the forward_fill loop (lines 62-71): the new signal_start
\* and the filtered array, rows 0 .. i.
PersistBody(loc, v, i, filtered, a) ==
    IF v # 0
    THEN IF loc.signal_start = None
         THEN [signal_start |-> i, filtered |-> Append(filtered, 0)]
         ELSE IF PersistEnough(loc.signal_start, i, a)
              THEN [signal_start |-> loc.signal_start,
                    filtered |-> FillSlice(filtered, loc.signal_start, i, v)]
              ELSE [signal_start |-> loc.signal_start,
                    filtered |-> Append(filtered, 0)]
    ELSE [signal_start |-> None, filtered |-> Append(filtered, 0)]

PersistInit ==
    /\ fn = "apply_signal_persistence_filter"
    /\ args \in PersistArgs
    /\ rows = <<>>
    /\ st = [signal_start |-> None]
    /\ out = <<>>

PersistStep ==
    /\ fn = "apply_signal_persistence_filter"
    /\ Len(rows) < MaxBars
    /\ \E v \in SignalValues :
          LET loc == PersistBody(st, v, Len(rows), out, args) IN
          /\ rows' = Append(rows, v)
          /\ st' = [signal_start |-> loc.signal_start]
          /\ out' = loc.filtered
    /\ UNCHANGED <<fn, args>>

\* One iteration of the backward_fill loop (lines 79-82): the filtered
\* array, rows 0 .. i.
PersistBackBody(v, i, filtered, a) ==
    IF v # 0
    THEN LET start_idx == IF i - a.min_periods + 1 > 0
                          THEN i - a.min_periods + 1 ELSE 0
         IN  FillSlice(filtered, start_idx, i, v)
    ELSE Append(filtered, 0)

PersistBackInit ==
    /\ fn = "apply_signal_persistence_filter(method='backward_fill')"
    /\ args \in PersistArgs
    /\ rows = <<>>
    /\ st = [signal_start |-> None]
    /\ out = <<>>

PersistBackStep ==
    /\ fn = "apply_signal_persistence_filter(method='backward_fill')"
    /\ Len(rows) < MaxBars
    /\ \E v \in SignalValues :
          /\ rows' = Append(rows, v)
          /\ out' = PersistBackBody(v, Len(rows), out, args)
    /\ UNCHANGED <<fn, args, st>>

(***************************************************************************)
(* calculate_chandelier_exit and apply_chandelier_exit_to_signal           *)
(* (numba_logic.py)                                                        *)
(***************************************************************************)

\* The locals of calculate_chandelier_exit before the loop (lines 104-106).
ChandelierStart ==
    [highest_high |-> NaN, lowest_low |-> NaN, entry_idx |-> None,
     stop_long |-> NaN, stop_short |-> NaN]

\* One iteration of the loop of calculate_chandelier_exit (lines 108-137);
\* stop_long and stop_short are the entries written for row i (NaN when the
\* iteration writes none).
ChandelierBody(loc, bar, sig, i, k) ==
    IF sig = 1
    THEN IF loc.entry_idx = None
         THEN [loc EXCEPT !.entry_idx = i, !.highest_high = bar.high,
                          !.stop_long = NaN, !.stop_short = NaN]
         ELSE LET hh == IF Gt(bar.high, loc.highest_high)
                        THEN bar.high ELSE loc.highest_high
              IN  [loc EXCEPT !.highest_high = hh,
                              !.stop_long = Minus(hh, k * bar.atr),
                              !.stop_short = NaN]
    ELSE IF sig = -1
         THEN IF loc.entry_idx = None
              THEN [loc EXCEPT !.entry_idx = i, !.lowest_low = bar.low,
                               !.stop_long = NaN, !.stop_short = NaN]
              ELSE LET ll == IF Lt(bar.low, loc.lowest_low)
                             THEN bar.low ELSE loc.lowest_low
                   IN  [loc EXCEPT !.lowest_low = ll,
                                   !.stop_long = NaN,
                                   !.stop_short = Plus(ll, k * bar.atr)]
         ELSE ChandelierStart

\* calculate_chandelier_exit on rows 0 .. n-1: the locals after them and the
\* two stop arrays.
RECURSIVE ChandelierRun(_, _, _, _)
ChandelierRun(bars, signal, n, k) ==
    IF n = 0
    THEN [loc |-> ChandelierStart, stop_long |-> <<>>, stop_short |-> <<>>]
    ELSE LET before == ChandelierRun(bars, signal, n - 1, k)
             loc == ChandelierBody(before.loc, bars[n], signal[n], n - 1, k)
         IN  [loc |-> loc,
              stop_long |-> Append(before.stop_long, loc.stop_long),
              stop_short |-> Append(before.stop_short, loc.stop_short)]

calculate_chandelier_exit(bars, signal, k) ==
    LET run == ChandelierRun(bars, signal, Len(bars), k)
    IN  [stop_long |-> run.stop_long, stop_short |-> run.stop_short]

\* Mutant: a close on the stop level closes the position too.
StopRow_Inclusive(close, sig, stop_long, stop_short) ==
    IF sig = 1
    THEN IF ~IsNaN(stop_long) /\ close <= stop_long THEN 0 ELSE sig
    ELSE IF sig = -1
         THEN IF ~IsNaN(stop_short) /\ close >= stop_short THEN 0 ELSE sig
         ELSE sig

\* Row i of apply_chandelier_exit_to_signal (lines 171-179).
StopRow(close, sig, stop_long, stop_short) ==
    IF sig = 1
    THEN IF ~IsNaN(stop_long) /\ close < stop_long THEN 0 ELSE sig
    ELSE IF sig = -1
         THEN IF ~IsNaN(stop_short) /\ close > stop_short THEN 0 ELSE sig
         ELSE sig

apply_chandelier_exit_to_signal(bars, signal, stops) ==
    [n \in 1 .. Len(bars) |->
        StopRow(bars[n].close, signal[n], stops.stop_long[n], stops.stop_short[n])]

(***************************************************************************)
(* build_alm_strategy_advanced (strategy_advanced.py), steps 3 to 6: the   *)
(* builder is run on the instrument's bars so far each time a bar arrives. *)
(***************************************************************************)

\* Longest history given to the advanced builder.
MaxAdvBars == 4

\* Closes around a channel of lower 1, middle 2, upper 3; high and low of a
\* bar equal its close.
AdvCloses == {0, 2, 3, 4}

\* regime_filter of a bar: 0.0 or 1.0 (regime.py lines 93-97), or no row for
\* the bar's (timestamp, symbol) key.
AdvRegimes == {0, 1, None}

AdvBars ==
    {[close |-> c, high |-> c, low |-> c, upper |-> 3, lower |-> 1,
      middle |-> 2, atr |-> 1, regime |-> g] :
        c \in AdvCloses, g \in AdvRegimes}

\* signal_threshold is in percent; 30 is the default 0.3.
SignalThresholdDefault == 30

AdvArgs ==
    [enable_chandelier : BOOLEAN, chandelier_k : {1},
     signal_threshold : {0, SignalThresholdDefault}]

\* Mutant: a bar without a regime row is let through.
RegimeGet_Open(bar) == IF bar.regime = None THEN 1 ELSE bar.regime

\* regime_data_1h.get((timestamp, symbol), 0) (line 290)
RegimeGet(bar) == IF bar.regime = None THEN 0 ELSE bar.regime

\* Step 3 (lines 264-267): price is the close, beside the three bands.
HysteresisArrays(bars) ==
    [n \in 1 .. Len(bars) |->
        [price |-> bars[n].close, upper |-> bars[n].upper,
         lower |-> bars[n].lower, middle |-> bars[n].middle]]

\* Mutant: the raw signal goes on unfiltered.
ApplyRegimeFilter_Ungated(bars, raw_signal) ==
    [n \in 1 .. Len(bars) |-> raw_signal[n]]

\* Step 4 (lines 288-292): raw signal times the regime filter.
ApplyRegimeFilter(bars, raw_signal) ==
    [n \in 1 .. Len(bars) |-> raw_signal[n] * RegimeGet(bars[n])]

\* abs(signal_strength_score) >= signal_threshold, with the score
\* ((close - lower) / (upper - lower) - 0.5) * 2 of indicators.py lines
\* 283-294 and the threshold in percent.
Abs(x) == IF x < 0 THEN -x ELSE x

StrengthPasses(bar, a) ==
    100 * Abs(2 * (bar.close - bar.lower) - (bar.upper - bar.lower))
        >= a.signal_threshold * Abs(bar.upper - bar.lower)

\* Step 6 (lines 339-353).
ApplySignalThreshold(bars, signal, a) ==
    IF a.signal_threshold > 0
    THEN [n \in 1 .. Len(bars) |->
             IF StrengthPasses(bars[n], a) THEN signal[n] ELSE 0]
    ELSE signal

\* Steps 3 to 6 on the bars of one instrument: every intermediate array and
\* the returned signal.
AdvancedRun(bars, a) ==
    LET raw_signal == apply_hysteresis_numba(HysteresisArrays(bars))
        filtered_signal == ApplyRegimeFilter(bars, raw_signal)
        stops == calculate_chandelier_exit(bars, filtered_signal, a.chandelier_k)
        final_signal ==
            IF a.enable_chandelier
            THEN apply_chandelier_exit_to_signal(bars, filtered_signal, stops)
            ELSE filtered_signal
    IN  [raw_signal |-> raw_signal,
         filtered_signal |-> filtered_signal,
         stops |-> stops,
         final_signal |-> final_signal,
         returned |-> ApplySignalThreshold(bars, final_signal, a)]

AdvInit ==
    /\ fn = "build_alm_strategy_advanced"
    /\ args \in AdvArgs
    /\ rows = <<>>
    /\ st = AdvancedRun(<<>>, args)
    /\ out = <<>>

AdvStep ==
    /\ fn = "build_alm_strategy_advanced"
    /\ Len(rows) < MaxAdvBars
    /\ \E bar \in AdvBars :
          LET run == AdvancedRun(Append(rows, bar), args) IN
          /\ rows' = Append(rows, bar)
          /\ st' = run
          /\ out' = run.returned
    /\ UNCHANGED <<fn, args>>

SpecAdvanced == AdvInit /\ [][AdvStep]_vars

(***************************************************************************)
(* The two engines with a minimum holding period, run on bars that carry   *)
(* the prices and the ATR of the panel beside the score: the hysteresis    *)
(* step of build_alm_strategy_ultra_conservative, and apply_exit_logic,    *)
(* which is handed close, high, low and atr.                               *)
(***************************************************************************)

\* high, low, close and ATR of a bar: a quiet bar at 100, a bar closing at
\* 97 and a bar closing at 103.
PanelPrices ==
    {[high |-> 100, low |-> 100, close |-> 100, atr |-> 2],
     [high |-> 100, low |-> 97, close |-> 97, atr |-> 2],
     [high |-> 103, low |-> 100, close |-> 103, atr |-> 2]}

PanelScores == {-80, 10, 80}

\* The bars are one hour apart.
PanelNextRows ==
    {[timestamp |-> Len(rows), factor |-> f, high |-> p.high, low |-> p.low,
      close |-> p.close, atr |-> p.atr] :
        f \in PanelScores, p \in PanelPrices}

UltraPanelInit ==
    /\ fn = "build_alm_strategy_ultra_conservative"
    /\ args \in UltraArgs
    /\ rows = <<>>
    /\ st = [current_signal |-> 0, entry_timestamp |-> None]
    /\ out = <<>>

\* Step 8 of the builder (lines 292-297): the row loop of
\* apply_ultra_wide_hysteresis reads the score and the timestamp of the bar.
UltraPanelStep ==
    /\ fn = "build_alm_strategy_ultra_conservative"
    /\ Len(rows) < MaxBars
    /\ \E row \in PanelNextRows :
          LET loc == UltraBody(st, row, args) IN
          /\ rows' = Append(rows, row)
          /\ st' = loc
          /\ out' = Append(out, loc.current_signal)
    /\ UNCHANGED <<fn, args>>

\* trailing_multiplier and min_holding_periods of apply_exit_logic
\* (lines 228-229).
ExitPanelArgs ==
    [min_holding_periods : 0 .. MaxPeriods, trailing_multiplier : {1, 2}]

ExitPanelInit ==
    /\ fn = "apply_exit_logic(signal, close, high, low, atr)"
    /\ args \in ExitPanelArgs
    /\ rows = <<>>
    /\ st = [position |-> 0, position_start |-> None, label |-> 0]
    /\ out = <<>>

\* apply_exit_group on the merged frame (lines 272-320): the loop reads the
\* 'factor' column only.
ExitPanelStep ==
    /\ fn = "apply_exit_logic(signal, close, high, low, atr)"
    /\ Len(rows) < MaxBars
    /\ \E row \in PanelNextRows :
          LET loc == ExitBody(st, row.factor, Len(rows), out, args) IN
          /\ rows' = Append(rows, row)
          /\ st' = loc
          /\ out' = Append(out, loc.label)
    /\ UNCHANGED <<fn, args>>

PanelInit == UltraPanelInit \/ ExitPanelInit

PanelNext == UltraPanelStep \/ ExitPanelStep

SpecPanel == PanelInit /\ [][PanelNext]_vars

(***************************************************************************)
(* Whole frames: apply_ultra_wide_hysteresis on a frame of several         *)
(* instruments whose rows come in any order.  The frame is sorted, the     *)
(* instruments are looped over, and the function may be called again on a  *)
(* related frame once it has returned; st.calls keeps the frames and the   *)
(* results of the calls that have returned.                                *)
(***************************************************************************)

\* Most rows in a frame.
MaxFrameRows == 3

FrameSymbols == {"A", "B"}

\* The order sort_values and groupby give the symbols.
SymbolRank(s) == IF s = "A" THEN 1 ELSE 2

FrameTimestamps == 0 .. 2

\* Scores of a frame of the hysteresis: inside the band and beyond the entry
\* threshold.
FrameScores == {10, 80}

\* A frame has one row per (symbol, timestamp).
UniqueKeys(f) ==
    \A m, n \in 1 .. Len(f) :
        (f[m].symbol = f[n].symbol /\ f[m].timestamp = f[n].timestamp)
            => m = n

Frames(scores) ==
    {f \in UNION {[1 .. n -> [symbol : FrameSymbols,
                              timestamp : FrameTimestamps,
                              factor : scores]] : n \in 0 .. MaxFrameRows} :
        UniqueKeys(f)}

\* Row order of sort_values(['symbol', 'timestamp']) (line 65).
RowBefore(r1, r2) ==
    \/ SymbolRank(r1.symbol) < SymbolRank(r2.symbol)
    \/ r1.symbol = r2.symbol /\ r1.timestamp < r2.timestamp

\* Mutant: the frame is left in the order it came in.
SortValues_Unsorted(f) == f

\* sort_values(['symbol', 'timestamp']).reset_index(drop=True) (line 65): row
\* n of the result is the row with n-1 rows before it.
SortValues(f) ==
    [n \in 1 .. Len(f) |->
        CHOOSE r \in {f[m] : m \in 1 .. Len(f)} :
            Cardinality({m \in 1 .. Len(f) : RowBefore(f[m], r)}) = n - 1]

\* Mutant: the locals of the previous instrument are kept.
UltraSymbolStart_Carry(loc) == loc

\* current_signal = 0, entry_timestamp = None at the top of the loop over
\* one symbol (lines 77-78).
UltraSymbolStart(loc) == [current_signal |-> 0, entry_timestamp |-> None]

\* The locals before row k of the sorted frame: those left by row k-1, reset
\* when row k is the first row of its symbol (lines 72-78).
UltraFrameLocals(data, k, loc) ==
    IF k = 1 \/ data[k].symbol # data[k - 1].symbol
    THEN UltraSymbolStart(loc)
    ELSE loc

FrameArgs ==
    [entry_threshold : {EntryThresholdDefault},
     exit_threshold : {ExitThresholdDefault},
     min_holding_periods : {0, 2}]

\* Frames the function is called on after it has returned for frame f: the
\* same frame, the rows of one symbol alone, the rows in reverse order, the
\* frame with the scores of one symbol changed, and the frame with a row
\* added.
RestrictTo(f, s) == SelectSeq(f, LAMBDA r : r.symbol = s)

Reversed(f) == [n \in 1 .. Len(f) |-> f[Len(f) + 1 - n]]

\* Values of the 'factor' column of a frame handed to a filter.
FilterFrameScores == {0, 1}

OtherScore(x) ==
    CHOOSE y \in (IF x \in FrameScores THEN FrameScores
                  ELSE FilterFrameScores) : y # x

Rescored(f, s) ==
    [n \in 1 .. Len(f) |->
        IF f[n].symbol = s
        THEN [f[n] EXCEPT !.factor = OtherScore(f[n].factor)]
        ELSE f[n]]

\* The frame with one more row of symbol s in front, where there is room for
\* it.
Prepended(f, s) ==
    IF /\ Len(f) \in 1 .. MaxFrameRows - 1
       /\ \A n \in 1 .. Len(f) : ~(f[n].symbol = s /\ f[n].timestamp = 0)
    THEN <<[symbol |-> s, timestamp |-> 0, factor |-> f[1].factor]>> \o f
    ELSE f

NextFrames(f) ==
    {f, Reversed(f)}
        \cup {RestrictTo(f, s) : s \in FrameSymbols}
        \cup {Rescored(f, s) : s \in FrameSymbols}
        \cup {Prepended(f, s) : s \in FrameSymbols}

UltraFrameInit ==
    /\ fn = "apply_ultra_wide_hysteresis(frame)"
    /\ args \in FrameArgs
    /\ rows \in Frames(FrameScores)
    /\ st = [pc |-> "sort", data |-> <<>>, current_signal |-> 0,
             entry_timestamp |-> None, calls |-> <<>>]
    /\ out = <<>>

\* Lines 64-69: copy, sort, final_signal column.
UltraFrameSort ==
    /\ fn = "apply_ultra_wide_hysteresis(frame)"
    /\ st.pc = "sort"
    /\ st' = [st EXCEPT !.pc = "loop", !.data = SortValues(rows)]
    /\ out' = <<>>
    /\ UNCHANGED <<fn, args, rows>>

\* Lines 72-117: the next row of the sorted frame, in the loop over the
\* symbols and the rows of each; final_signal of the row is written.
UltraFrameRow ==
    /\ fn = "apply_ultra_wide_hysteresis(frame)"
    /\ st.pc = "loop"
    /\ Len(out) < Len(st.data)
    /\ LET k == Len(out) + 1
           row == st.data[k]
           before == UltraFrameLocals(st.data, k,
                        [current_signal |-> st.current_signal,
                         entry_timestamp |-> st.entry_timestamp])
           loc == UltraBody(before, row, args)
       IN  /\ st' = [st EXCEPT !.current_signal = loc.current_signal,
                               !.entry_timestamp = loc.entry_timestamp]
           /\ out' = Append(out, [timestamp |-> row.timestamp,
                                  symbol |-> row.symbol,
                                  factor |-> loc.current_signal])
    /\ UNCHANGED <<fn, args, rows>>

\* Lines 119-123: the frame of final signals is returned.
UltraFrameReturn ==
    /\ fn = "apply_ultra_wide_hysteresis(frame)"
    /\ st.pc = "loop"
    /\ Len(out) = Len(st.data)
    /\ st' = [st EXCEPT !.pc = "done"]
    /\ UNCHANGED <<fn, args, rows, out>>

\* The function is called a second time.
UltraFrameCallAgain ==
    /\ fn = "apply_ultra_wide_hysteresis(frame)"
    /\ st.pc = "done"
    /\ st.calls = <<>>
    /\ \E f \in NextFrames(rows) :
          /\ rows' = f
          /\ st' = [st EXCEPT !.pc = "sort", !.data = <<>>,
                              !.calls = <<[rows |-> rows, out |-> out]>>]
          /\ out' = <<>>
    /\ UNCHANGED <<fn, args>>

(***************************************************************************)
(* Whole frames through a filter of the optimized strategy: groupby        *)
(* 'symbol', filter_group on every group, concat and reindex               *)
(* (apply_min_holding_period_filter lines 163-217, apply_cooldown_filter   *)
(* lines 241-279 and apply_signal_persistence_filter lines 51-108, method  *)
(* 'forward_fill').                                                        *)
(***************************************************************************)

FilterFrameFns ==
    {"apply_min_holding_period_filter(frame)",
     "apply_cooldown_filter(frame)",
     "apply_signal_persistence_filter(frame)"}

FilterFrameArgs(f) ==
    IF f = "apply_min_holding_period_filter(frame)"
    THEN [min_holding_hours : {0, 2}]
    ELSE IF f = "apply_cooldown_filter(frame)"
         THEN [cooldown_hours : {1, 2}]
         ELSE [min_periods : {1, 2}]

\* The frame's index labels in the order the groups are processed: the
\* groups by symbol, each group's rows in frame order.
RECURSIVE IndicesOf(_, _, _)
IndicesOf(f, s, n) ==
    IF n > Len(f) THEN <<>>
    ELSE IF f[n].symbol = s
         THEN <<n>> \o IndicesOf(f, s, n + 1)
         ELSE IndicesOf(f, s, n + 1)

GroupOrder(f) == IndicesOf(f, "A", 1) \o IndicesOf(f, "B", 1)

\* The initial values of the locals of filter_group (lines 168-170, lines
\* 246-248, lines 59-60).
FilterLocals(f) ==
    IF f = "apply_min_holding_period_filter(frame)"
    THEN [last_position |-> 0, position_start |-> None, label |-> 0]
    ELSE IF f = "apply_cooldown_filter(frame)"
         THEN [last_position |-> 0, last_close_time |-> None, label |-> 0]
         ELSE [signal_start |-> None]

\* Mutant: the locals of the previous group are kept.
FilterGroupStart_Carry(f, loc) == loc

\* filter_group sets its locals before its loop, whatever the previous group
\* left.
FilterGroupStart(f, loc) == FilterLocals(f)

\* One iteration of the loop of filter_group: the locals and the filtered
\* array of the group, rows 0 .. i; values are the group's inputs before
\* row i.
FilterGroupBody(f, loc, v, i, values, filtered, a) ==
    IF f = "apply_min_holding_period_filter(frame)"
    THEN LET r == MinHoldBody(loc, v, i, filtered, a)
         IN  [loc |-> r, filtered |-> Append(filtered, r.label)]
    ELSE IF f = "apply_cooldown_filter(frame)"
         THEN LET r == CooldownBody(loc, v, i, values, a)
              IN  [loc |-> r, filtered |-> Append(filtered, r.label)]
         ELSE LET r == PersistBody(loc, v, i, filtered, a)
              IN  [loc |-> [signal_start |-> r.signal_start],
                   filtered |-> r.filtered]

FilterFrameInit ==
    /\ fn \in FilterFrameFns
    /\ args \in FilterFrameArgs(fn)
    /\ rows \in Frames(FilterFrameScores)
    /\ st = [pc |-> "group", data |-> <<>>, k |-> 0, g |-> 1,
             loc |-> FilterLocals(fn), filtered |-> <<>>,
             series |-> <<>>, calls |-> <<>>]
    /\ out = <<>>

\* result_data = signal.data.copy(); grouped = result_data.groupby('symbol')
FilterFrameGroup ==
    /\ fn \in FilterFrameFns
    /\ st.pc = "group"
    /\ st' = [st EXCEPT !.pc = "loop", !.data = GroupOrder(rows), !.k = 0,
                        !.g = 1, !.filtered = <<>>,
                        !.series = [n \in 1 .. Len(rows) |-> 0]]
    /\ UNCHANGED <<fn, args, rows, out>>

\* The next row of the next group: filter_group is entered when the row is
\* the first of its group; the group's series is indexed by group.index.
FilterFrameRow ==
    /\ fn \in FilterFrameFns
    /\ st.pc = "loop"
    /\ st.k < Len(st.data)
    /\ LET k == st.k + 1
           idx == st.data[k]
           first == k = 1 \/ rows[idx].symbol # rows[st.data[k - 1]].symbol
           g == IF first THEN k ELSE st.g
           before == IF first THEN FilterGroupStart(fn, st.loc) ELSE st.loc
           sofar == IF first THEN <<>> ELSE st.filtered
           values == [j \in 1 .. k - g |-> rows[st.data[g + j - 1]].factor]
           r == FilterGroupBody(fn, before, rows[idx].factor, k - g, values,
                                sofar, args)
       IN  st' = [st EXCEPT
                    !.k = k, !.g = g, !.loc = r.loc, !.filtered = r.filtered,
                    !.series =
                        [n \in 1 .. Len(rows) |->
                            IF \E j \in g .. k : st.data[j] = n
                            THEN r.filtered[
                                    (CHOOSE j \in g .. k : st.data[j] = n)
                                        - g + 1]
                            ELSE st.series[n]]]
    /\ UNCHANGED <<fn, args, rows, out>>

\* result_data['factor'] = pd.concat([...]).reindex(result_data.index);
\* return Factor(result_data, ...).  The list handed to pd.concat has one
\* series per group; a frame without rows has no group, and pd.concat
\* raises ValueError on an empty list: the call ends without a result.
FilterFrameReturn ==
    /\ fn \in FilterFrameFns
    /\ st.pc = "loop"
    /\ st.k = Len(st.data)
    /\ IF st.data = <<>>
       THEN /\ st' = [st EXCEPT !.pc = "raised"]
            /\ out' = out
       ELSE /\ st' = [st EXCEPT !.pc = "done"]
            /\ out' = [n \in 1 .. Len(rows) |->
                          [timestamp |-> rows[n].timestamp,
                           symbol |-> rows[n].symbol,
                           factor |-> st.series[n]]]
    /\ UNCHANGED <<fn, args, rows>>

\* The filter is called a second time.
FilterFrameCallAgain ==
    /\ fn \in FilterFrameFns
    /\ st.pc = "done"
    /\ st.calls = <<>>
    /\ \E f \in NextFrames(rows) :
          /\ rows' = f
          /\ st' = [st EXCEPT !.pc = "group", !.data = <<>>,
                              !.calls = <<[rows |-> rows, out |-> out]>>]
          /\ out' = <<>>
    /\ UNCHANGED <<fn, args>>

\* apply_hysteresis_numba on the arrays of one instrument.
NumbaArraysInit ==
    /\ fn = "apply_hysteresis_numba(arrays)"
    /\ args = <<>>
    /\ rows \in UNION {[1 .. n -> NumbaRows] : n \in 0 .. MaxFrameRows}
    /\ st = [pc |-> "call"]
    /\ out = <<>>

NumbaArraysCall ==
    /\ fn = "apply_hysteresis_numba(arrays)"
    /\ st.pc = "call"
    /\ st' = [pc |-> "done"]
    /\ out' = apply_hysteresis_numba(rows)
    /\ UNCHANGED <<fn, args, rows>>

FrameInit == UltraFrameInit \/ FilterFrameInit \/ NumbaArraysInit

FrameNext ==
    \/ UltraFrameSort
    \/ UltraFrameRow
    \/ UltraFrameReturn
    \/ UltraFrameCallAgain
    \/ FilterFrameGroup
    \/ FilterFrameRow
    \/ FilterFrameReturn
    \/ FilterFrameCallAgain
    \/ NumbaArraysCall

SpecFrame == FrameInit /\ [][FrameNext]_vars

(***************************************************************************)
(* apply_ultra_wide_hysteresis on hourly bars whose scores lie on and      *)
(* around the two thresholds.                                              *)
(***************************************************************************)

\* Longest history of scores at the thresholds.
MaxBoundaryBars == 3

\* Scores at, inside and beyond the default thresholds, on both sides.
BoundaryScores == {-80, -75, -50, -25, -10, 0, 10, 25, 50, 75, 80}

BoundaryArgs ==
    [entry_threshold : {EntryThresholdDefault},
     exit_threshold : {ExitThresholdDefault},
     min_holding_periods : {0, 2}]

BoundaryInit ==
    /\ fn = "apply_ultra_wide_hysteresis(scores at the thresholds)"
    /\ args \in BoundaryArgs
    /\ rows = <<>>
    /\ st = [current_signal |-> 0, entry_timestamp |-> None]
    /\ out = <<>>

\* One iteration of the row loop (lines 80-117) on the next hourly bar.
BoundaryStep ==
    /\ fn = "apply_ultra_wide_hysteresis(scores at the thresholds)"
    /\ Len(rows) < MaxBoundaryBars
    /\ \E f \in BoundaryScores :
          LET row == [timestamp |-> Len(rows), factor |-> f]
              loc == UltraBody(st, row, args)
          IN  /\ rows' = Append(rows, row)
              /\ st' = loc
              /\ out' = Append(out, loc.current_signal)
    /\ UNCHANGED <<fn, args>>

SpecBoundary == BoundaryInit /\ [][BoundaryStep]_vars

(***************************************************************************)
(* apply_cooldown_filter.filter_group on histories long enough for a       *)
(* signal to be suppressed and to disappear inside a window.               *)
(***************************************************************************)

\* Longest history given to the cooldown filter alone.
MaxCooldownBars == 5

CooldownValues == {-1, 0, 1}

LongCooldownInit ==
    /\ fn = "apply_cooldown_filter(long history)"
    /\ args \in CooldownArgs
    /\ rows = <<>>
    /\ st = [last_position |-> 0, last_close_time |-> None, label |-> 0]
    /\ out = <<>>

\* One iteration of the loop of filter_group (lines 250-268).
LongCooldownStep ==
    /\ fn = "apply_cooldown_filter(long history)"
    /\ Len(rows) < MaxCooldownBars
    /\ \E v \in CooldownValues :
          LET loc == CooldownBody(st, v, Len(rows), rows, args) IN
          /\ rows' = Append(rows, v)
          /\ st' = loc
          /\ out' = Append(out, loc.label)
    /\ UNCHANGED <<fn, args>>

SpecCooldown == LongCooldownInit /\ [][LongCooldownStep]_vars

(***************************************************************************)
(* The tail of the filter chain of build_alm_strategy_optimized (lines     *)
(* 353-365): apply_min_holding_period_filter, then apply_cooldown_filter   *)
(* on its result.  Both loops label row i from the rows up to i, so the    *)
(* two passes are run side by side, one row at a time; st.mid is the       *)
(* output of the min-holding pass.                                         *)
(***************************************************************************)

\* Longest history given to the chain.
MaxChainBars == 6

ChainValues == {-1, 0, 1}

ChainArgs == [min_holding_hours : 0 .. 2, cooldown_hours : 0 .. 2]

ChainInit ==
    /\ fn = "build_alm_strategy_optimized"
    /\ args \in ChainArgs
    /\ rows = <<>>
    /\ st = [min_holding |->
                 [last_position |-> 0, position_start |-> None, label |-> 0],
             cooldown |->
                 [last_position |-> 0, last_close_time |-> None, label |-> 0],
             mid |-> <<>>]
    /\ out = <<>>

\* Row i of the min-holding pass (lines 172-206), then row i of the cooldown
\* pass (lines 250-268) on the min-holding output.
ChainStep ==
    /\ fn = "build_alm_strategy_optimized"
    /\ Len(rows) < MaxChainBars
    /\ \E v \in ChainValues :
          LET i == Len(rows)
              held == MinHoldBody(st.min_holding, v, i, st.mid, args)
              cooled == CooldownBody(st.cooldown, held.label, i, st.mid, args)
          IN  /\ rows' = Append(rows, v)
              /\ st' = [min_holding |-> held, cooldown |-> cooled,
                        mid |-> Append(st.mid, held.label)]
              /\ out' = Append(out, cooled.label)
    /\ UNCHANGED <<fn, args>>

SpecChain == ChainInit /\ [][ChainStep]_vars

(***************************************************************************)
(* calculate_chandelier_exit followed by apply_chandelier_exit_to_signal   *)
(* (numba_logic.py), on bars whose high, low, close and ATR differ.  Both  *)
(* loops visit the rows in order and row i of the second reads only row i  *)
(* of the first, so one step runs iteration i of each.                     *)
(***************************************************************************)

\* Longest history given to the two functions.
MaxStopBars == 3

\* <<low, high>> of a bar: a narrow bar and a wide one.
StopRanges == {<<2, 4>>, <<1, 5>>}

StopCloses == {2, 3, 4}

StopAtrs == {1, 2}

\* signal: 1 long, -1 short, 0 none (docstring, line 84)
StopSignals == {-1, 0, 1}

StopBars ==
    {[high |-> r[2], low |-> r[1], close |-> c, atr |-> a, signal |-> s] :
        r \in StopRanges, c \in StopCloses, a \in StopAtrs, s \in StopSignals}

StopArgs == [k : {1}]

\* Lines 100-106, and the copy of line 169; locs keeps the locals as they
\* were after each iteration.
StopInit(f) ==
    /\ fn = f
    /\ args \in StopArgs
    /\ rows = <<>>
    /\ st = [loc |-> ChandelierStart, locs |-> <<>>,
             stop_long |-> <<>>, stop_short |-> <<>>]
    /\ out = <<>>

\* Iteration i of lines 108-137 and of lines 171-179 on one more bar.
ChandelierRow(bar) ==
    LET i == Len(rows)
        loc == ChandelierBody(st.loc, bar, bar.signal, i, args.k)
    IN  /\ rows' = Append(rows, bar)
        /\ st' = [loc |-> loc, locs |-> Append(st.locs, loc),
                  stop_long |-> Append(st.stop_long, loc.stop_long),
                  stop_short |-> Append(st.stop_short, loc.stop_short)]
        /\ out' = Append(out, StopRow(bar.close, bar.signal,
                                      loc.stop_long, loc.stop_short))

\* The two functions called with any signal array.
ChandelierCallInit == StopInit("calculate_chandelier_exit")

ChandelierCallStep ==
    /\ fn = "calculate_chandelier_exit"
    /\ Len(rows) < MaxStopBars
    /\ \E bar \in StopBars : ChandelierRow(bar)
    /\ UNCHANGED <<fn, args>>

SpecChandelier == ChandelierCallInit /\ [][ChandelierCallStep]_vars

\* The signal of the bar before the next one, 0 before the first.
PrevSignal == IF rows = <<>> THEN 0 ELSE Last(rows).signal

\* The signal build_alm_strategy_advanced hands to the two functions is the
\* state of apply_hysteresis_numba times a regime filter of 0 or 1: the
\* state leaves 1 and -1 only for 0 (lines 51-58), so a long bar is never
\* directly followed by a short bar, nor a short bar by a long one.
FromHysteresis(prev, signal) == prev * signal # -1

StopStageInit == StopInit("build_alm_strategy_advanced(chandelier)")

StopStageStep ==
    /\ fn = "build_alm_strategy_advanced(chandelier)"
    /\ Len(rows) < MaxStopBars
    /\ \E bar \in StopBars :
          /\ FromHysteresis(PrevSignal, bar.signal)
          /\ ChandelierRow(bar)
    /\ UNCHANGED <<fn, args>>

SpecStops == StopStageInit /\ [][StopStageStep]_vars

(***************************************************************************)
(* apply_ultra_wide_hysteresis and the forward_fill persistence filter on  *)
(* a 'factor' column of floats in which some values are NaN.               *)
(***************************************************************************)

\* Longest history with NaN values.
MaxNaNBars == 3

\* A missing score, no score, and a score beyond the entry threshold on
\* each side.
NaNScores == {NaN, 0, 80, -80}

NaNUltraArgs ==
    [entry_threshold : {EntryThresholdDefault},
     exit_threshold : {ExitThresholdDefault},
     min_holding_periods : 0 .. MaxPeriods]

\* Lines 77-78.
NaNUltraInit ==
    /\ fn = "apply_ultra_wide_hysteresis(NaN scores)"
    /\ args \in NaNUltraArgs
    /\ rows = <<>>
    /\ st = [current_signal |-> 0, entry_timestamp |-> None]
    /\ out = <<>>

\* One iteration of the row loop (lines 80-117) on hourly rows.
NaNUltraStep ==
    /\ fn = "apply_ultra_wide_hysteresis(NaN scores)"
    /\ Len(rows) < MaxNaNBars
    /\ \E score \in NaNScores :
          LET row == [timestamp |-> Len(rows), factor |-> score]
              loc == UltraBody(st, row, args)
          IN  /\ rows' = Append(rows, row)
              /\ st' = loc
              /\ out' = Append(out, loc.current_signal)
    /\ UNCHANGED <<fn, args>>

\* Values of a float signal column.
NaNValues == {NaN, -1, 0, 1}

\* Lines 59-60.
NaNPersistInit ==
    /\ fn = "apply_signal_persistence_filter(NaN values)"
    /\ args \in PersistArgs
    /\ rows = <<>>
    /\ st = [signal_start |-> None]
    /\ out = <<>>

\* One iteration of the forward_fill loop (lines 62-71).
NaNPersistStep ==
    /\ fn = "apply_signal_persistence_filter(NaN values)"
    /\ Len(rows) < MaxNaNBars
    /\ \E v \in NaNValues :
          LET loc == PersistBody(st, v, Len(rows), out, args) IN
          /\ rows' = Append(rows, v)
          /\ st' = [signal_start |-> loc.signal_start]
          /\ out' = loc.filtered
    /\ UNCHANGED <<fn, args>>

NaNInit == NaNUltraInit \/ NaNPersistInit

NaNNext == NaNUltraStep \/ NaNPersistStep

SpecNaN == NaNInit /\ [][NaNNext]_vars

(***************************************************************************)
(* ALMLiveTrader.run_continuous and run_once (live_trading.py).  rows is   *)
(* the log of the calls made to the collaborators (signal generation, the  *)
(* account balance, the order-placing rebalance, the sleep), out the       *)
(* result of every finished cycle.                                         *)
(***************************************************************************)

\* Cycles after which the model stops following an unbounded loop.
MaxLiveIterations == 3

\* max_iterations: None (the default) or a number of cycles.
LiveArgs == [max_iterations : {None} \cup (0 .. MaxLiveIterations - 1)]

\* Truth value of an Optional[int] in 'if max_iterations and ...'.
Truthy(x) == x # None /\ x # 0

\* max_iterations and iteration >= max_iterations (line 342)
LimitReached(iteration, max_iterations) ==
    Truthy(max_iterations) /\ iteration >= max_iterations

\* iteration < (max_iterations or float('inf')) (line 356)
SleepsAfter(iteration, max_iterations) ==
    IF Truthy(max_iterations) THEN iteration < max_iterations ELSE TRUE

\* strategy_signal is None (line 312)
SignalFailed(strategy_signal) == strategy_signal = "None"

\* Mutant: only a negative equity stops the rebalance.
EquityUnavailable_Negative(total_equity) == total_equity < 0

\* total_equity == 0 (line 244); get_account_balance returns {} on failure
\* and balance_info.get('total_equity', 0) is then 0.
EquityUnavailable(total_equity) == total_equity = 0

\* What generate_strategy_signals returns: a Factor, or None after an
\* exception (lines 196-204).
LiveSignals == {"Factor", "None"}

\* total_equity read from the balance (line 242).
LiveEquities == {0, 1000}

\* How the call of rebalance ends (lines 270-284, 286-290).
RebalanceOutcomes == {"success", "error", "raise"}

LogCall(call, value) ==
    Append(rows, [iteration |-> st.iteration, call |-> call, value |-> value])

\* Lines 337-338.
LiveInit ==
    /\ fn = "run_continuous"
    /\ args \in LiveArgs
    /\ rows = <<>>
    /\ st = [pc |-> "while", iteration |-> 0, strategy_signal |-> "None"]
    /\ out = <<>>

\* Lines 341-346: the test at the top of the loop, then iteration += 1.
LiveWhile ==
    /\ fn = "run_continuous"
    /\ st.pc = "while"
    /\ IF LimitReached(st.iteration, args.max_iterations)
       THEN st' = [st EXCEPT !.pc = "stopped"]
       ELSE /\ st.iteration < MaxLiveIterations
            /\ st' = [st EXCEPT !.pc = "run_once",
                                !.iteration = st.iteration + 1]
    /\ UNCHANGED <<fn, args, rows, out>>

\* run_once, lines 310-313: the signals are generated; without them the
\* cycle returns an error.
LiveGenerate ==
    /\ fn = "run_continuous"
    /\ st.pc = "run_once"
    /\ \E s \in LiveSignals :
          /\ rows' = LogCall("generate_strategy_signals", s)
          /\ IF SignalFailed(s)
             THEN /\ st' = [st EXCEPT !.pc = "after", !.strategy_signal = s]
                  /\ out' = Append(out, "error")
             ELSE /\ st' = [st EXCEPT !.pc = "execute_rebalance",
                                      !.strategy_signal = s]
                  /\ out' = out
    /\ UNCHANGED <<fn, args>>

\* run_once line 316 and execute_rebalance, lines 224-290: an exception
\* anywhere in it gives an error result; so does an equity of 0; otherwise
\* rebalance is called and its result returned.
LiveExecuteRebalance ==
    /\ fn = "run_continuous"
    /\ st.pc = "execute_rebalance"
    /\ \/ /\ rows' = rows
          /\ out' = Append(out, "error")
       \/ \E total_equity \in LiveEquities :
             IF EquityUnavailable(total_equity)
             THEN /\ rows' = LogCall("get_account_balance", total_equity)
                  /\ out' = Append(out, "error")
             ELSE \E r \in RebalanceOutcomes :
                     /\ rows' = Append(LogCall("get_account_balance",
                                               total_equity),
                                       [iteration |-> st.iteration,
                                        call |-> "rebalance", value |-> r])
                     /\ out' = Append(out, IF r = "success" THEN "success"
                                           ELSE "error")
    /\ st' = [st EXCEPT !.pc = "after"]
    /\ UNCHANGED <<fn, args>>

\* Lines 352-359: a failed cycle is only logged; the sleep, then the loop
\* again.
LiveSleep ==
    /\ fn = "run_continuous"
    /\ st.pc = "after"
    /\ rows' = IF SleepsAfter(st.iteration, args.max_iterations)
               THEN LogCall("sleep", None) ELSE rows
    /\ st' = [st EXCEPT !.pc = "while"]
    /\ UNCHANGED <<fn, args, out>>

\* Lines 361-362 and 368-369: Ctrl+C ends the loop wherever it is.
LiveKeyboardInterrupt ==
    /\ fn = "run_continuous"
    /\ st.pc # "stopped"
    /\ st' = [st EXCEPT !.pc = "stopped"]
    /\ UNCHANGED <<fn, args, rows, out>>

LiveNext ==
    \/ LiveWhile
    \/ LiveGenerate
    \/ LiveExecuteRebalance
    \/ LiveSleep
    \/ LiveKeyboardInterrupt

SpecLive == LiveInit /\ [][LiveNext]_vars

(***************************************************************************)
(* apply_rebalancing_buffer (core/risk.py): weights and buffer_pct are in  *)
(* percent.                                                                *)
(***************************************************************************)

\* Longest frame of current weights.
MaxBufferRows == 2

\* Current weights around a target of 10 or -10 percent: outside the
\* 10 percent buffer, on its edges, inside it.
BufferCurrents == {-11, -10, -9, -8, 0, 8, 9, 10, 11}

\* Target weight of the row's (timestamp, symbol), None when the target
\* frame has no such row.
BufferTargets == {-10, 0, 10, None}

BufferArgs == [buffer_pct : {0, 10}]

\* target_data.get((timestamp, symbol), 0) (line 96)
TargetGet(target) == IF target = None THEN 0 ELSE target

\* apply_buffer (lines 91-109), both sides of the comparison times 100.
apply_buffer(current, target, buffer_pct) ==
    LET buffer_lower == target * (100 - buffer_pct)
        buffer_upper == target * (100 + buffer_pct)
    IN  IF buffer_lower <= 100 * current /\ 100 * current <= buffer_upper
        THEN current
        ELSE target

BufferInit ==
    /\ fn = "apply_rebalancing_buffer"
    /\ args \in BufferArgs
    /\ rows = <<>>
    /\ st = <<>>
    /\ out = <<>>

\* result_df.apply(apply_buffer, axis=1) (line 111) on one more row.
BufferStep ==
    /\ fn = "apply_rebalancing_buffer"
    /\ Len(rows) < MaxBufferRows
    /\ \E current \in BufferCurrents, target \in BufferTargets :
          /\ rows' = Append(rows, [current |-> current, target |-> target])
          /\ out' = Append(out, apply_buffer(current, TargetGet(target),
                                             args.buffer_pct))
    /\ UNCHANGED <<fn, args, st>>

SpecBuffer == BufferInit /\ [][BufferStep]_vars

(***************************************************************************)
(* detect_regime (strategies/alm/regime.py), lines 64-99: the indicators   *)
(* CHOP and ADX of a bar and the thresholds are in tenths.                 *)
(***************************************************************************)

\* Longest history of indicator bars.
MaxRegimeBars == 2

\* Defaults of detect_regime, in tenths.
ChopThresholdChoppyDefault == 618
ChopThresholdTrendingDefault == 382
AdxThresholdWeakDefault == 200
AdxThresholdStrongDefault == 250

\* The literals of lines 77, 95 (CHOP < 50) and 87 (ADX > 50), in tenths.
ChopTrendingLiteral == 500
AdxExtremeLiteral == 500

\* Thresholds passed by the caller: the defaults, a lower choppy threshold,
\* a higher weak-trend threshold.
RegimeArgs ==
    [chop_threshold_choppy : {ChopThresholdChoppyDefault, 400},
     chop_threshold_trending : {ChopThresholdTrendingDefault},
     adx_threshold_weak : {AdxThresholdWeakDefault, 300},
     adx_threshold_strong : {AdxThresholdStrongDefault}]

\* CHOP and ADX of a bar; NaN inside the indicators' windows.
RegimeChops == {NaN, 300, 450, 550, 700}

RegimeAdxs == {NaN, 100, 220, 270, 600}

\* Lines 66-72
IsChoppy(bar, a) ==
    Gt(bar.chop, a.chop_threshold_choppy) \/ Lt(bar.adx, a.adx_threshold_weak)

\* Lines 75-81
IsTrending(bar, a) ==
    Lt(bar.chop, ChopTrendingLiteral) /\ Gt(bar.adx, a.adx_threshold_strong)

\* Lines 84-90
IsExtremeTrend(bar, a) ==
    Lt(bar.chop, a.chop_threshold_trending) /\ Gt(bar.adx, AdxExtremeLiteral)

\* Lines 93-99: the boolean as a float.
RegimeFilter(bar, a) ==
    IF Lt(bar.chop, ChopTrendingLiteral) /\ Gt(bar.adx, a.adx_threshold_strong)
    THEN 1 ELSE 0

RegimeInit ==
    /\ fn = "detect_regime"
    /\ args \in RegimeArgs
    /\ rows = <<>>
    /\ st = <<>>
    /\ out = <<>>

\* The four columns of one more bar.
RegimeStep ==
    /\ fn = "detect_regime"
    /\ Len(rows) < MaxRegimeBars
    /\ \E chop \in RegimeChops, adx \in RegimeAdxs :
          LET bar == [chop |-> chop, adx |-> adx] IN
          /\ rows' = Append(rows, bar)
          /\ out' = Append(out,
                [is_choppy |-> IsChoppy(bar, args),
                 is_trending |-> IsTrending(bar, args),
                 is_extreme_trend |-> IsExtremeTrend(bar, args),
                 regime_filter |-> RegimeFilter(bar, args)])
    /\ UNCHANGED <<fn, args, st>>

SpecRegime == RegimeInit /\ [][RegimeStep]_vars

(***************************************************************************)
(* The calls                                                               *)
(***************************************************************************)

Init ==
    \/ UltraInit
    \/ NumbaInit
    \/ ExitInit
    \/ MinHoldInit
    \/ CooldownInit
    \/ PersistInit
    \/ PersistBackInit

Next ==
    \/ UltraStep
    \/ NumbaStep
    \/ ExitStep
    \/ MinHoldStep
    \/ CooldownStep
    \/ PersistStep
    \/ PersistBackStep

Spec == Init /\ [][Next]_vars

(***************************************************************************)
(* Properties                                                              *)
(***************************************************************************)

Ultra == fn = "apply_ultra_wide_hysteresis"
Numba == fn = "apply_hysteresis_numba"
ExitLogic == fn = "apply_exit_logic"
MinHold == fn = "apply_min_holding_period_filter"
Cooldown == fn = "apply_cooldown_filter"
Persist == fn = "apply_signal_persistence_filter"

\* Row n+1 of the output is on the side opposite to row n.
ReversesAt(o, n) == sign(o[n]) # 0 /\ sign(o[n + 1]) = -sign(o[n])

NoDirectReversal(o) == \A n \in 1 .. Len(o) - 1 : ~ReversesAt(o, n)

\* A position opens at row t of the output: the label is nonzero and the
\* row before (if any) is flat or on the other side.
OpensAt(o, t) ==
    /\ sign(o[t]) # 0
    /\ t = 1 \/ sign(o[t - 1]) # sign(o[t])

\* The row at which the position held at row n was opened.
OpeningOf(o, n) ==
    CHOOSE t \in 1 .. n :
        /\ OpensAt(o, t)
        /\ \A u \in t + 1 .. n : ~OpensAt(o, u)

Factors == [n \in 1 .. Len(rows) |-> rows[n].factor]

\* C1: the outputs of apply_ultra_wide_hysteresis, apply_hysteresis_numba and
\* apply_exit_logic never go from a positive label at one bar to a negative
\* label at the next, nor from negative to positive.
C1_FlatTransition ==
    (Ultra \/ Numba \/ ExitLogic) => NoDirectReversal(out)

\* C1 witness: apply_exit_logic is given a signal that reverses from one bar
\* to the next and has labelled the bar of the reversal 0.
C1_Witness ==
    /\ ExitLogic
    /\ \E n \in 1 .. Len(out) - 1 :
          /\ rows[n] > 0 /\ rows[n + 1] < 0
          /\ out[n] > 0 /\ out[n + 1] = 0

\* C2, as claimed: the output of apply_min_holding_period_filter never goes
\* from a positive value at bar i to a negative value at bar i+1 or vice
\* versa.
C2_NoReversalClaimed == MinHold => NoDirectReversal(out)

\* C2, amended: the output of apply_min_holding_period_filter goes from one
\* side at bar i directly to the other side at bar i+1 only when the input at
\* bar i+1 is on the new side and the position held at bar i was opened at
\* least min_holding_hours bars before bar i+1.
C2_ReversalOnlyAfterHold ==
    MinHold =>
        \A n \in 1 .. Len(out) - 1 :
            ReversesAt(out, n) =>
                /\ sign(rows[n + 1]) = sign(out[n + 1])
                /\ (n + 1) - OpeningOf(out, n) >= args.min_holding_hours

\* C2 witness: with a holding period of two bars the output reverses with no
\* flat bar between.
C2_Witness ==
    /\ MinHold
    /\ args.min_holding_hours = 2
    /\ \E n \in 1 .. Len(out) - 1 : ReversesAt(out, n)

\* C3, as claimed: in apply_ultra_wide_hysteresis a position opened at bar
\* index t keeps its label on the bars t+1 .. t+m-1, m = min_holding_periods,
\* for every strictly increasing timestamp sequence.
C3_HoldCountedInBars ==
    Ultra =>
        \A t \in 1 .. Len(out) :
            OpensAt(out, t) =>
                \A j \in t + 1 .. t + args.min_holding_periods - 1 :
                    j <= Len(out) => out[j] = out[t]

\* C3, amended: a position opened at bar t keeps its label on every later bar
\* whose timestamp is less than min_holding_periods hours after the
\* timestamp of bar t.
C3_HoldCountedInHours ==
    Ultra =>
        \A t \in 1 .. Len(out) :
            OpensAt(out, t) =>
                \A j \in t + 1 .. Len(out) :
                    rows[j].timestamp - rows[t].timestamp
                            < args.min_holding_periods
                        => out[j] = out[t]

\* C3 witness: a long position is kept on a bar less than m hours after its
\* entry although the score of that bar is below the exit threshold.
C3_Witness ==
    /\ Ultra
    /\ \E t \in 1 .. Len(out) : \E j \in t + 1 .. Len(out) :
          /\ OpensAt(out, t) /\ out[t] = 1
          /\ rows[j].timestamp - rows[t].timestamp < args.min_holding_periods
          /\ rows[j].factor < args.exit_threshold
          /\ out[j] = 1

\* min_holding_hours of the filter, min_holding_periods of the exit logic.
MinHoldingArg ==
    IF MinHold THEN args.min_holding_hours ELSE args.min_holding_periods

\* C4: in apply_min_holding_period_filter and apply_exit_logic, once a
\* position opens at bar t the output on the bars t+1 .. t+m-1 is nonzero
\* with the sign of the position opened at t, whatever the input on those
\* bars.
C4_MinimumHolding ==
    (MinHold \/ ExitLogic) =>
        \A t \in 1 .. Len(out) :
            OpensAt(out, t) =>
                \A j \in t + 1 .. t + MinHoldingArg - 1 :
                    j <= Len(out) => sign(out[j]) = sign(out[t])

\* C4 witness: with m = 2 a position opens at bar t, the input of bar t+1 is
\* on the other side, the output of bar t+1 keeps the position, and the
\* output leaves the position at bar t+2.
C4_Witness ==
    /\ MinHold
    /\ args.min_holding_hours = 2
    /\ \E t \in 1 .. Len(out) - 2 :
          /\ OpensAt(out, t)
          /\ sign(rows[t + 1]) = -sign(out[t])
          /\ sign(out[t + 1]) = sign(out[t])
          /\ sign(out[t + 2]) # sign(out[t])

\* The configuration of scenarios A and B with a minimum holding of m.
ScenarioArgs(m) ==
    args = [entry_threshold |-> EntryThresholdDefault,
            exit_threshold |-> ExitThresholdDefault,
            min_holding_periods |-> m]

\* Bars one hour apart.
UnitSpaced == \A n \in 1 .. Len(rows) : rows[n].timestamp = n - 1

\* C5: scenario A: entry threshold 0.75, exit threshold 0.25, no minimum
\* holding; the scores 0.8, 0.8, 0.1 give the positions 1, 1, 0.
C5_ScenarioA ==
    (Ultra /\ ScenarioArgs(0) /\ Factors = <<80, 80, 10>>)
        => out = <<1, 1, 0>>

\* C5 witness: the three bars of scenario A have been processed.
C5_Witness ==
    /\ Ultra /\ ScenarioArgs(0) /\ UnitSpaced
    /\ Factors = <<80, 80, 10>>
    /\ Len(out) = 3

\* C6, as claimed: scenario B: minimum holding 2, bars one hour apart; the
\* scores 0.8, 0.1, 0.1 give 1, 1, 1 and the scores 0.8, 0.1, 0.1, 0.1 give
\* 1, 1, 1, 0.
C6_ScenarioBClaimed ==
    (Ultra /\ ScenarioArgs(2) /\ UnitSpaced) =>
        /\ Factors = <<80, 10, 10>> => out = <<1, 1, 1>>
        /\ Factors = <<80, 10, 10, 10>> => out = <<1, 1, 1, 0>>

\* C6, amended: the scores 0.8, 0.1, 0.1 give 1, 1, 0 (the exit is blocked on
\* the second bar only) and the scores 0.8, 0.1, 0.1, 0.1 give 1, 1, 0, 0.
C6_ScenarioB ==
    (Ultra /\ ScenarioArgs(2) /\ UnitSpaced) =>
        /\ Factors = <<80, 10, 10>> => out = <<1, 1, 0>>
        /\ Factors = <<80, 10, 10, 10>> => out = <<1, 1, 0, 0>>

\* C6 witness: the four bars of scenario B have been processed.
C6_Witness ==
    /\ Ultra /\ ScenarioArgs(2) /\ UnitSpaced
    /\ Factors = <<80, 10, 10, 10>>
    /\ Len(out) = 4

\* Highest high and lowest low of the bars t .. j.
RECURSIVE HighestHigh(_, _)
HighestHigh(t, j) ==
    IF j = t THEN rows[t].high
    ELSE LET h == HighestHigh(t, j - 1)
         IN  IF rows[j].high > h THEN rows[j].high ELSE h

RECURSIVE LowestLow(_, _)
LowestLow(t, j) ==
    IF j = t THEN rows[t].low
    ELSE LET l == LowestLow(t, j - 1)
         IN  IF rows[j].low < l THEN rows[j].low ELSE l

\* The position opened at bar t is still held on the bars t .. j-1.
HeldFrom(t, j) ==
    OpensAt(out, t) /\ \A u \in t .. j - 1 : sign(out[u]) = sign(out[t])

\* The multiple of the trailing stop: trailing_multiplier where the engine
\* takes one, 1 otherwise.
StopMultiple ==
    IF "trailing_multiplier" \in DOMAIN args THEN args.trailing_multiplier
    ELSE 1

\* C7, as claimed: with a trailing stop and a minimum holding period m > 0,
\* a long position whose close on a bar after entry is below the highest
\* high since entry minus the multiple times the bar's ATR is labelled 0 on
\* that bar, and a short position whose close is above the lowest low since
\* entry plus the multiple times ATR likewise, however few bars have passed
\* since entry.
C7_StopOverridesHold ==
    args.min_holding_periods > 0 =>
        \A t \in 1 .. Len(out) : \A j \in t + 1 .. Len(out) :
            /\ (HeldFrom(t, j) /\ out[t] > 0
                    /\ rows[j].close < HighestHigh(t, j) - StopMultiple * rows[j].atr)
                => out[j] = 0
            /\ (HeldFrom(t, j) /\ out[t] < 0
                    /\ rows[j].close > LowestLow(t, j) + StopMultiple * rows[j].atr)
                => out[j] = 0

\* Input rows n .. n+len-1 are a maximal run of nonzero values, all on one
\* side, among the rows consumed so far.
IsRun(n, len) ==
    /\ len >= 1 /\ n >= 1 /\ n + len - 1 <= Len(rows)
    /\ \A u \in n .. n + len - 1 : sign(rows[u]) = sign(rows[n])
    /\ rows[n] # 0
    /\ n = 1 \/ rows[n - 1] = 0
    /\ n + len - 1 = Len(rows) \/ rows[n + len] = 0

\* C8: in apply_signal_persistence_filter (forward_fill) with
\* min_periods = k > 1, a single nonzero bar with zero before and after is
\* labelled 0 (and if it is the only nonzero bar the whole output is 0), and
\* a run of exactly k bars of one direction gives a nonzero output of that
\* direction on its k-th bar.
C8_Persistence ==
    (Persist /\ args.min_periods > 1) =>
        /\ \A n \in 1 .. Len(rows) : IsRun(n, 1) => out[n] = 0
        /\ Cardinality({n \in 1 .. Len(rows) : rows[n] # 0}) = 1
              => \A n \in 1 .. Len(out) : out[n] = 0
        /\ \A n \in 1 .. Len(rows) :
              IsRun(n, args.min_periods)
                  => sign(out[n + args.min_periods - 1]) = sign(rows[n])

\* C8 witness: with k = 2, an isolated bar followed, after a zero bar, by a
\* run of exactly two bars of one direction.
C8_Witness ==
    /\ Persist
    /\ args.min_periods = 2
    /\ Len(rows) = 4
    /\ IsRun(1, 1) /\ IsRun(3, 2)
    /\ out[1] = 0 /\ out[4] # 0

\* C9, as claimed: in apply_cooldown_filter with cooldown_hours = c, if the
\* output is nonzero at bar e-1 and zero at bar e, the output is 0 on each of
\* the c bars e+1 .. e+c.
C9_CooldownBars ==
    Cooldown =>
        \A e \in 2 .. Len(out) :
            (out[e - 1] # 0 /\ out[e] = 0) =>
                \A j \in e + 1 .. e + args.cooldown_hours :
                    j <= Len(out) => out[j] = 0

\* C9, amended: in apply_cooldown_filter with cooldown_hours = c, if the
\* output is nonzero at bar e-1 and zero at bar e, the output is 0 on the
\* c-1 bars e+1 .. e+c-1; and when none of the inputs on the bars
\* e+1 .. e+c is zero, the input of bar e+c is passed through unchanged.
C9_CooldownFromExitBar ==
    Cooldown =>
        \A e \in 2 .. Len(out) :
            (out[e - 1] # 0 /\ out[e] = 0) =>
                /\ \A j \in e + 1 .. e + args.cooldown_hours - 1 :
                      j <= Len(out) => out[j] = 0
                /\ (e + args.cooldown_hours <= Len(out)
                      /\ \A j \in e + 1 .. e + args.cooldown_hours :
                            rows[j] # 0)
                      => out[e + args.cooldown_hours]
                            = rows[e + args.cooldown_hours]

\* C9 witness: with c = 2, an exit at the second bar, a nonzero input
\* suppressed on the third bar and passed through on the fourth.
C9_Witness ==
    /\ Cooldown
    /\ args.cooldown_hours = 2
    /\ Len(out) = 4
    /\ out[1] # 0 /\ out[2] = 0
    /\ rows[3] # 0 /\ out[3] = 0
    /\ out[4] # 0

FactorAt(n) ==
    IF Ultra THEN rows[n].factor ELSE rows[n]

\* C11: in apply_ultra_wide_hysteresis with a positive entry threshold, an
\* instrument that is flat before a bar whose score is 0 is flat on that
\* bar; in the forward_fill persistence filter a bar whose input is 0 is
\* labelled 0; and in every score-driven engine an all-zero input gives an
\* all-zero output.
C11_NoSignal ==
    /\ (Ultra /\ args.entry_threshold > 0) =>
          \A n \in 1 .. Len(out) :
              (rows[n].factor = 0 /\ (n = 1 \/ out[n - 1] = 0))
                  => out[n] = 0
    /\ Persist => \A n \in 1 .. Len(out) : rows[n] = 0 => out[n] = 0
    /\ (Ultra \/ Persist \/ MinHold \/ Cooldown \/ ExitLogic) =>
          ((\A n \in 1 .. Len(rows) : FactorAt(n) = 0)
              => \A n \in 1 .. Len(out) : out[n] = 0)

\* C11 witness: a flat hysteresis engine, after a position was closed and
\* any hold has run out, sees a score of 0 and stays flat.
C11_Witness ==
    /\ Ultra
    /\ Len(out) = 3
    /\ out[1] # 0 /\ out[2] = 0
    /\ rows[3].factor = 0 /\ out[3] = 0

\* C12, as claimed: apply_ultra_wide_hysteresis called with an exit
\* threshold greater than or equal to the entry threshold fails and writes
\* no position for any row.
C12_ThresholdOrderRejected ==
    (Ultra /\ args.exit_threshold >= args.entry_threshold) => out = <<>>

UltraFrame == fn = "apply_ultra_wide_hysteresis(frame)"

\* The rows of every instrument come in strictly increasing timestamp order.
StrictlyOrdered(f) ==
    \A m, n \in 1 .. Len(f) :
        (m < n /\ f[m].symbol = f[n].symbol)
            => f[m].timestamp < f[n].timestamp

\* The (symbol, timestamp) keys of a frame.
Keys(f) == {<<f[n].symbol, f[n].timestamp>> : n \in 1 .. Len(f)}

FilterFrame == fn \in FilterFrameFns

\* Number of rows of symbol s in frame f.
RowsOf(f, s) == Cardinality({n \in 1 .. Len(f) : f[n].symbol = s})

\* C14: when a call has returned, apply_ultra_wide_hysteresis and the
\* persistence, min-holding and cooldown filters have emitted, for every
\* instrument, as many records as the instrument has input rows, one for
\* each input bar, and apply_hysteresis_numba has emitted an array as long
\* as its input arrays.
C14_OutputAlignment ==
    st.pc = "done" =>
        /\ (UltraFrame \/ FilterFrame) =>
              /\ \A s \in FrameSymbols : RowsOf(out, s) = RowsOf(rows, s)
              /\ Keys(out) = Keys(rows)
        /\ fn = "apply_hysteresis_numba(arrays)" => Len(out) = Len(rows)

\* C14 witness: a filter has returned for a frame in which one instrument
\* has two rows and the other one, in mixed order.
C14_Witness ==
    /\ FilterFrame
    /\ st.pc = "done"
    /\ Len(rows) = 3
    /\ rows[1].symbol = "A" /\ rows[2].symbol = "B" /\ rows[3].symbol = "A"
    /\ RowsOf(out, "A") = 2 /\ RowsOf(out, "B") = 1

\* C15: when a function that works on whole frames (the hysteresis, a
\* filter) has returned for two frames in which the rows of an instrument
\* are the same, in the same order, whatever the rows of the other
\* instruments (removed, added, changed, in another place), the records
\* emitted for that instrument are the same in both calls.
C15_InstrumentIsolation ==
    ((UltraFrame \/ FilterFrame) /\ st.pc = "done" /\ st.calls # <<>>) =>
        \A s \in FrameSymbols :
            RestrictTo(rows, s) = RestrictTo(st.calls[1].rows, s)
                => RestrictTo(out, s) = RestrictTo(st.calls[1].out, s)

\* C15 witness: the hysteresis has returned for a frame in which instrument
\* A is in a position and instrument B, whose only score is inside the band,
\* is flat, and then again for the rows of B alone.
C15_Witness ==
    /\ UltraFrame
    /\ st.pc = "done"
    /\ st.calls # <<>>
    /\ args.min_holding_periods = 2
    /\ \E n \in 1 .. Len(st.calls[1].out) :
          st.calls[1].out[n].symbol = "A" /\ st.calls[1].out[n].factor = 1
    /\ RestrictTo(st.calls[1].rows, "B") = rows
    /\ Len(rows) = 1
    /\ out[1].factor = 0

\* C16: a function that is called again on the frame it has just returned
\* for returns the same records, whatever state the first call ended in.
C16_StatelessRuns ==
    ((UltraFrame \/ FilterFrame) /\ st.pc = "done" /\ st.calls # <<>>
        /\ rows = st.calls[1].rows)
        => out = st.calls[1].out

\* C16 witness: the min-holding filter has returned twice for the same
\* frame; the first call ended with a position open on the last bar, and
\* the second call labels the first bar, whose input is 0, with 0 again.
C16_Witness ==
    /\ fn = "apply_min_holding_period_filter(frame)"
    /\ args.min_holding_hours = 2
    /\ st.pc = "done"
    /\ st.calls # <<>>
    /\ rows = st.calls[1].rows
    /\ Len(rows) = 3
    /\ \A n \in 1 .. 3 : rows[n].symbol = "A"
    /\ st.calls[1].out[3].factor = 1
    /\ rows[1].factor = 0 /\ out[1].factor = 0
    /\ out[3].factor = 1

PersistBack == fn = "apply_signal_persistence_filter(method='backward_fill')"

\* C17, as claimed: in apply_signal_persistence_filter (forward_fill and
\* backward_fill) and apply_ultra_wide_hysteresis, processing one more bar
\* of an instrument leaves the labels of all earlier bars as they were.
C17_Causality ==
    [][(Ultra \/ Persist \/ PersistBack) =>
          \A n \in 1 .. Len(out) : out'[n] = out[n]]_vars

\* The instrument is flat when bar n arrives.
FlatBefore(n) == n = 1 \/ out[n - 1] = 0

\* C18, as claimed: a flat instrument whose score equals the entry threshold
\* enters long on that bar, and one whose score equals minus the entry
\* threshold enters short.
C18_EntryInclusive ==
    \A n \in 1 .. Len(out) :
        FlatBefore(n) =>
            /\ rows[n].factor = args.entry_threshold => out[n] = 1
            /\ rows[n].factor = -args.entry_threshold => out[n] = -1

\* C18, amended: the entry threshold is exclusive: a flat instrument enters
\* long on a bar exactly when the score is strictly above the entry
\* threshold and short exactly when it is strictly below minus the entry
\* threshold; a score equal to the threshold on either side leaves it flat.
C18_EntryExclusive ==
    \A n \in 1 .. Len(out) :
        FlatBefore(n) =>
            out[n] = IF rows[n].factor > args.entry_threshold THEN 1
                     ELSE IF rows[n].factor < -args.entry_threshold THEN -1
                     ELSE 0

\* C18 witness: a flat instrument has seen the score minus the entry
\* threshold and then the entry threshold itself and is still flat, and
\* then enters on a score above the threshold.
C18_Witness ==
    /\ Len(out) = 3
    /\ rows[1].factor = -args.entry_threshold /\ out[1] = 0
    /\ rows[2].factor = args.entry_threshold /\ out[2] = 0
    /\ rows[3].factor > args.entry_threshold /\ out[3] = 1

\* The position held before bar n has been held for the minimum holding
\* time when bar n arrives.
HoldSatisfied(n) ==
    rows[n].timestamp - rows[OpeningOf(out, n - 1)].timestamp
        >= args.min_holding_periods

\* C19: with 0 <= exit threshold < entry threshold, a position that has
\* satisfied the minimum hold is closed on a bar exactly when the magnitude
\* of the score is strictly below the exit threshold or the sign of the score
\* opposes the position; otherwise the position is carried to the bar
\* unchanged, in particular on a score of the position's sign whose magnitude
\* equals the exit threshold or lies between the two thresholds.
C19_ExitRule ==
    (0 <= args.exit_threshold /\ args.exit_threshold < args.entry_threshold)
        => \A n \in 2 .. Len(out) :
              (out[n - 1] # 0 /\ HoldSatisfied(n)) =>
                  /\ out[n] = 0 <=>
                        \/ Abs(rows[n].factor) < args.exit_threshold
                        \/ sign(rows[n].factor) = -sign(out[n - 1])
                  /\ out[n] # 0 => out[n] = out[n - 1]

\* C19 witness: a short position with no minimum hold stays open on the
\* score minus the exit threshold and is closed on the next bar by a score
\* of magnitude below the exit threshold.
C19_Witness ==
    /\ args.min_holding_periods = 0
    /\ Len(out) = 3
    /\ out[1] = -1
    /\ rows[2].factor = -args.exit_threshold /\ out[2] = -1
    /\ rows[3].factor = -10 /\ out[3] = 0

\* Input rows j .. j+k-1 are nonzero and all of one sign.
SameSignWindow(j, k) ==
    /\ j >= 1 /\ j + k - 1 <= Len(rows)
    /\ rows[j] # 0
    /\ \A u \in j .. j + k - 1 : sign(rows[u]) = sign(rows[j])

\* C20, as claimed: in apply_signal_persistence_filter (forward_fill) with
\* min_periods = k >= 1, a bar is given a nonzero label only once k
\* consecutive bars of one and the same sign have been seen, and a labelled
\* bar carries the direction of its own input, never that of a later bar.
C20_UnchangedSign ==
    (Persist /\ args.min_periods >= 1) =>
        \A n \in 1 .. Len(out) :
            out[n] # 0 =>
                /\ sign(out[n]) = sign(rows[n])
                /\ \E j \in 1 .. Len(rows) :
                      SameSignWindow(j, args.min_periods)

\* C21, as claimed: with min_periods 0 or 1 the forward_fill persistence
\* filter passes every nonzero bar on the bar where it occurs, so its output
\* equals its input.
C21_DegeneratePersistence ==
    (Persist /\ args.min_periods <= 1) => out = rows

\* C22, as claimed: in apply_cooldown_filter with cooldown_hours = c, a
\* nonzero input that arrives after the output has been 0 on more than c
\* consecutive bars is passed through: only the exit of a position that was
\* emitted starts the window, and a signal suppressed inside the window does
\* not restart it when it disappears.
C22_CooldownExact ==
    \A n \in 1 .. Len(out) :
        (/\ rows[n] # 0
         /\ n - (args.cooldown_hours + 1) >= 1
         /\ \A j \in n - (args.cooldown_hours + 1) .. n - 1 : out[j] = 0)
            => out[n] = rows[n]

\* Rows a .. b of the output are a maximal run of nonzero labels that is
\* followed by a 0 row.
ClosedRun(a, b) ==
    /\ 1 <= a /\ a <= b /\ b < Len(out)
    /\ \A n \in a .. b : out[n] # 0
    /\ a = 1 \/ out[a - 1] = 0
    /\ out[b + 1] = 0

\* C23, as claimed: in the output of the min-holding filter followed by the
\* cooldown filter, every maximal run of nonzero labels that is followed by
\* a 0 bar is at least min_holding_hours bars long.
C23_HoldSurvivesChain ==
    \A a, b \in 1 .. Len(out) :
        ClosedRun(a, b) => b - a + 1 >= args.min_holding_hours

\* The entry condition of apply_hysteresis_numba for direction d holds on
\* bar n of the advanced builder: close above the upper band for a long,
\* below the lower band for a short.
EntryConditionAt(n, d) ==
    \/ d > 0 /\ rows[n].close > rows[n].upper
    \/ d < 0 /\ rows[n].close < rows[n].lower

\* The Chandelier stop fires on bar n: the signal handed to
\* apply_chandelier_exit_to_signal is nonzero and its result is 0.
StopFiresAt(n) ==
    st.filtered_signal[n] # 0 /\ st.final_signal[n] = 0

\* C24, as claimed: in build_alm_strategy_advanced with the Chandelier exit
\* enabled, once the stop has fired on a bar the signal after the stop is 0
\* on every later bar until the entry condition holds again: a later bar
\* carries a position only if the price has broken the channel in that
\* direction on some bar after the stop.
C24_StopCloses ==
    (fn = "build_alm_strategy_advanced" /\ args.enable_chandelier) =>
        \A n \in 1 .. Len(rows) : \A m \in n + 1 .. Len(rows) :
            (StopFiresAt(n) /\ st.final_signal[m] # 0)
                => \E j \in n + 1 .. m :
                      EntryConditionAt(j, st.final_signal[m])

\* The first bar of the maximal run of equal signals that ends at bar n.
RunStart(n) ==
    CHOOSE e \in 1 .. n :
        /\ \A u \in e .. n : rows[u].signal = rows[n].signal
        /\ e = 1 \/ rows[e - 1].signal # rows[n].signal

\* C25, as claimed: in calculate_chandelier_exit, after every bar, the
\* tracked extremum is undefined (NaN) when the bar's signal is 0; when the
\* signal is 1 the highest high is defined, equals the bar's high on the
\* first bar of the long run and is not below its value after the previous
\* bar on the later ones; when the signal is -1 the lowest low is defined,
\* equals the bar's low on the first bar of the short run and is not above
\* its previous value on the later ones; for every signal sequence, a short
\* run directly after a long run included.
C25_EntryExtremum ==
    \A n \in 1 .. Len(rows) :
        LET s == rows[n].signal
            loc == st.locs[n]
            e == RunStart(n)
        IN  /\ s = 0 => IsNaN(loc.highest_high) /\ IsNaN(loc.lowest_low)
            /\ s = 1 =>
                  /\ ~IsNaN(loc.highest_high)
                  /\ n = e => loc.highest_high = rows[n].high
                  /\ n > e => loc.highest_high >= st.locs[n - 1].highest_high
            /\ s = -1 =>
                  /\ ~IsNaN(loc.lowest_low)
                  /\ n = e => loc.lowest_low = rows[n].low
                  /\ n > e => loc.lowest_low <= st.locs[n - 1].lowest_low

\* C26: in the Chandelier stage of the advanced builder, on the first bar
\* of a position there is no stop level and the signal is kept; on every
\* later bar of a long position the stop level is the highest high of the
\* bars since its first one, the current included, minus k times the bar's
\* ATR, and the bar is set to 0 exactly when its close is strictly below
\* that level; for a short position the level is the lowest low since its
\* first bar plus k times the bar's ATR and the bar is set to 0 exactly when
\* its close is strictly above it.
C26_StopLevel ==
    \A n \in 1 .. Len(rows) :
        LET s == rows[n].signal
            e == RunStart(n)
        IN  /\ s = 0 =>
                  /\ IsNaN(st.stop_long[n]) /\ IsNaN(st.stop_short[n])
                  /\ out[n] = 0
            /\ (s # 0 /\ n = e) =>
                  /\ IsNaN(st.stop_long[n]) /\ IsNaN(st.stop_short[n])
                  /\ out[n] = s
            /\ (s = 1 /\ n > e) =>
                  /\ st.stop_long[n] = HighestHigh(e, n) - args.k * rows[n].atr
                  /\ IsNaN(st.stop_short[n])
                  /\ out[n] = IF rows[n].close < st.stop_long[n] THEN 0 ELSE 1
            /\ (s = -1 /\ n > e) =>
                  /\ st.stop_short[n] = LowestLow(e, n) + args.k * rows[n].atr
                  /\ IsNaN(st.stop_long[n])
                  /\ out[n] = IF rows[n].close > st.stop_short[n] THEN 0 ELSE -1

\* C26 witness: a long position of three bars whose first high is the
\* highest; the second bar closes on the stop level and is kept, the third
\* closes below it and is set to 0.
C26_Witness ==
    /\ fn = "build_alm_strategy_advanced(chandelier)"
    /\ Len(rows) = 3
    /\ \A n \in 1 .. 3 : rows[n].signal = 1
    /\ rows[1].high > rows[2].high /\ rows[1].high > rows[3].high
    /\ out[1] = 1
    /\ rows[2].close = st.stop_long[2] /\ out[2] = 1
    /\ rows[3].close < st.stop_long[3] /\ out[3] = 0

\* The returned signal opens a position on bar n: nonzero there, 0 or
\* nothing before.
AdvOpensAt(n) == out[n] # 0 /\ (n = 1 \/ out[n - 1] = 0)

C28_FirstBarProcessed ==
    (Numba /\ Len(rows) >= 1) =>
        /\ rows[1].price > rows[1].upper => out[1] = 1
        /\ (rows[1].price <= rows[1].upper /\ rows[1].price < rows[1].lower)
              => out[1] = -1

\* The position held before bar n of the NaN-score hysteresis run was opened
\* on bar t and min_holding_periods hours have passed since.
HeldPastMinimum(t, n) ==
    /\ 1 <= t /\ t < n
    /\ out[t] # 0 /\ (t = 1 \/ out[t - 1] = 0)
    /\ \A u \in t .. n - 1 : out[u] = out[t]
    /\ rows[n].timestamp - rows[t].timestamp >= args.min_holding_periods

\* C29, as claimed: a NaN score counts as a score of 0 on its bar.  In
\* apply_ultra_wide_hysteresis (exit threshold positive) an instrument that
\* is flat before a NaN bar is flat on it, and a position that has been held
\* for the minimum holding time is closed on a NaN bar, as on a score of 0;
\* in the forward_fill persistence filter a NaN bar is labelled 0, no label
\* is NaN, and a NaN bar does not start or continue the run of nonzero bars
\* that persistence counts.
C29_NaNAsZero ==
    /\ fn = "apply_ultra_wide_hysteresis(NaN scores)" =>
          \A n \in 1 .. Len(out) :
              IsNaN(rows[n].factor) =>
                  /\ (n = 1 \/ out[n - 1] = 0) => out[n] = 0
                  /\ \A t \in 1 .. n - 1 : HeldPastMinimum(t, n) => out[n] = 0
    /\ fn = "apply_signal_persistence_filter(NaN values)" =>
          \A n \in 1 .. Len(out) :
              /\ ~IsNaN(out[n])
              /\ IsNaN(rows[n]) => out[n] = 0
              /\ (out[n] # 0 /\ args.min_periods >= 2) =>
                    \E j \in 1 .. Len(rows) - 1 :
                        /\ j <= n /\ n <= j + 1
                        /\ rows[j] \in {-1, 1} /\ rows[j + 1] \in {-1, 1}

\* C30, as claimed: a call of apply_ultra_wide_hysteresis, of
\* apply_hysteresis_numba or of a filter (persistence, min-holding,
\* cooldown) on no rows at all or on a single row ends by returning, never
\* by raising, and returns as many labels as there were rows.
C30_ShortHistories ==
    (Len(rows) <= 1 /\ st.pc \in {"done", "raised"}) =>
        /\ st.pc = "done"
        /\ Len(out) = Len(rows)

\* The bands of input row n are in order: lower <= middle <= upper.
BandsOrdered(n) ==
    rows[n].lower <= rows[n].middle /\ rows[n].middle <= rows[n].upper

\* C31: in apply_hysteresis_numba a bar that follows a bar labelled 1 is
\* labelled 0 when its price is below the middle band or below the lower
\* band and 1 otherwise; a bar that follows a bar labelled -1 is labelled 0
\* when its price is above the middle band or above the upper band and -1
\* otherwise; and where lower <= middle <= upper no bar is labelled 1 with a
\* price below its middle band, nor -1 with a price above it.
C31_ChannelExit ==
    Numba =>
        \A n \in 2 .. Len(out) :
            /\ out[n - 1] = 1 =>
                  out[n] = IF \/ rows[n].price < rows[n].middle
                              \/ rows[n].price < rows[n].lower
                           THEN 0 ELSE 1
            /\ out[n - 1] = -1 =>
                  out[n] = IF \/ rows[n].price > rows[n].middle
                              \/ rows[n].price > rows[n].upper
                           THEN 0 ELSE -1
            /\ BandsOrdered(n) =>
                  /\ out[n] = 1 => rows[n].price >= rows[n].middle
                  /\ out[n] = -1 => rows[n].price <= rows[n].middle

\* C31 witness: a long is opened above the upper band, kept on a bar whose
\* price is on the middle band, and closed on the next bar, whose price is
\* between the lower and the middle band.
C31_Witness ==
    /\ Numba
    /\ Len(out) = 4
    /\ \A n \in 1 .. 4 : BandsOrdered(n)
    /\ rows[2].price > rows[2].upper /\ out[2] = 1
    /\ rows[3].price = rows[3].middle /\ out[3] = 1
    /\ rows[4].price < rows[4].middle /\ rows[4].price >= rows[4].lower
    /\ out[4] = 0

\* Log entry k is the call named call, made in cycle i.
IsCall(k, i, call) == rows[k].iteration = i /\ rows[k].call = call

\* C32: in every cycle of the live loop, rebalance is called only after
\* generate_strategy_signals has returned a signal in that cycle and after
\* a total equity other than 0 has been read in it; a finished cycle whose
\* signal generation returned None, or whose total equity was 0, has the
\* result 'error' and no call of rebalance.
C32_LiveLoopSafety ==
    fn = "run_continuous" =>
        /\ \A k \in 1 .. Len(rows) :
              rows[k].call = "rebalance" =>
                  /\ \E j \in 1 .. k - 1 :
                        /\ IsCall(j, rows[k].iteration,
                                  "generate_strategy_signals")
                        /\ rows[j].value = "Factor"
                  /\ \E j \in 1 .. k - 1 :
                        /\ IsCall(j, rows[k].iteration, "get_account_balance")
                        /\ rows[j].value # 0
        /\ \A i \in 1 .. Len(out) :
              (\E j \in 1 .. Len(rows) :
                  \/ IsCall(j, i, "generate_strategy_signals")
                        /\ rows[j].value = "None"
                  \/ IsCall(j, i, "get_account_balance")
                        /\ rows[j].value = 0)
                  => /\ out[i] = "error"
                     /\ \A k \in 1 .. Len(rows) : ~IsCall(k, i, "rebalance")

\* C32 witness: the first cycle had no signals, the second read an equity
\* of 0, both ended in 'error' without a rebalance, and the third placed
\* its orders.
C32_Witness ==
    /\ fn = "run_continuous"
    /\ Len(out) = 3
    /\ out[1] = "error" /\ out[2] = "error" /\ out[3] = "success"
    /\ \E j \in 1 .. Len(rows) :
          IsCall(j, 1, "generate_strategy_signals") /\ rows[j].value = "None"
    /\ \E j \in 1 .. Len(rows) :
          IsCall(j, 2, "get_account_balance") /\ rows[j].value = 0
    /\ \E k \in 1 .. Len(rows) : IsCall(k, 3, "rebalance")
    /\ \A k \in 1 .. Len(rows) :
          rows[k].call = "rebalance" => rows[k].iteration = 3

\* The number of calls of run_once so far: each begins by calling
\* generate_strategy_signals (line 311).
RunOnceCalls ==
    Cardinality({k \in 1 .. Len(rows) :
                    rows[k].call = "generate_strategy_signals"})

\* C33, as claimed: run_continuous(max_iterations = n) with an integer
\* n >= 0 never calls run_once more than n times.
C33_BoundedLoop ==
    (fn = "run_continuous" /\ args.max_iterations # None)
        => RunOnceCalls <= args.max_iterations

\* C34, as claimed: apply_rebalancing_buffer returns the current weight of
\* a row when |current - target| <= buffer_pct * |target| and the target
\* otherwise, whatever the sign of the target.
C34_BufferEitherSign ==
    fn = "apply_rebalancing_buffer" =>
        \A n \in 1 .. Len(out) :
            LET current == rows[n].current
                target == TargetGet(rows[n].target)
            IN  out[n] = IF 100 * Abs(current - target)
                                <= args.buffer_pct * Abs(target)
                         THEN current
                         ELSE target

\* C35, as claimed: whatever thresholds detect_regime is given, on a bar
\* for which is_choppy is true the regime filter is 0.
C35_ChoppyNeverTradable ==
    fn = "detect_regime" =>
        \A n \in 1 .. Len(out) :
            out[n].is_choppy => out[n].regime_filter = 0

====
